---- MODULE Spec2Model ----
(***************************************************************************)
(* Model of the signal-scoring and prediction engine of the trade          *)
(* analytics application: app/indicators.py (calculate_indicator),         *)
(* app/patterns.py (calculate_candlestick_patterns, get_pattern_signals)   *)
(* and app/predictions.py (predict_binary_options and its helpers).        *)
(* The HTTP routes of app/routes.py and the legacy endpoints of main.py    *)
(* are modelled as far as their checks and error handling go.              *)
(*                                                                         *)
(* Units.  Every price and oscillator value is an integer number of        *)
(* 1e-5 units (Num(30) is 30.00000), so that round(x, 2) and round(x, 4)   *)
(* are real operations.  Every signal weight is an integer number of tenths          *)
(* (W(15) is the Python weight 1.5).  A ratio a/b is kept as the pair      *)
(* [num |-> a, den |-> b] and compared by cross multiplication: ratios are *)
(* exact here, where Python divides in binary floating point (a quotient   *)
(* that is exactly 0.6 may come out one unit in the last place higher).    *)
(*                                                                         *)
(* The except branch of _analyze_indicator_signal (lines 250-253) and the  *)
(* except around the pattern calls (lines 91-92) are not modelled: the     *)
(* comparisons of the first run on the floats and strings that             *)
(* calculate_indicator stores, and calculate_candlestick_patterns and      *)
(* get_pattern_signals do not raise on each other's output.  The record    *)
(* of _analyze_market_conditions (line 123) depends on df only, is read by *)
(* nothing else, and is left out of the prediction record.                 *)
(*                                                                         *)
(* Specifications.  Spec is one call of predict_binary_options;            *)
(* SpecInterp the interpretation of one indicator on detailed readings;    *)
(* SpecSignals get_pattern_signals on detection maps; SpecRisk and         *)
(* SpecEntry the risk and entry helpers on inputs around their             *)
(* thresholds; SpecRoutes one request to one HTTP route.                   *)
(***************************************************************************)
EXTENDS Integers, Sequences, FiniteSets, TLC

Num(x) == x * 100000

W(tenths) == tenths

(* float('nan'): every ordered comparison with it is False *)
NaN == 0 - 999999

Lt_inclusive(a, b) == a # NaN /\ b # NaN /\ a <= b

Lt(a, b) == a # NaN /\ b # NaN /\ a < b

Gt(a, b) == a # NaN /\ b # NaN /\ a > b

Le(a, b) == a # NaN /\ b # NaN /\ a <= b

Ge(a, b) == a # NaN /\ b # NaN /\ a >= b

(* round(x, 2) *)
Round2(x) == IF x = NaN THEN NaN ELSE ((x + 500) \div 1000) * 1000

(* a Python dict is a function on its keys; dict.get(key, default) *)
EmptyDict == [k \in {} |-> 0]

Get(d, key, default) == IF key \in DOMAIN d THEN d[key] ELSE default

Abs(x) == IF x < 0 THEN 0 - x ELSE x

Max(a, b) == IF a >= b THEN a ELSE b

(***************************************************************************)
(* The fixed indicator plan of predict_binary_options.                     *)
(***************************************************************************)
indicators_config ==
    << [name |-> "rsi",        params |-> <<14>>],
       [name |-> "macd",       params |-> <<12, 26, 9>>],
       [name |-> "ema",        params |-> <<20>>],
       [name |-> "bb",         params |-> <<20, 2>>],
       [name |-> "stoch",      params |-> <<14, 3, 3>>],
       [name |-> "atr",        params |-> <<14>>],
       [name |-> "stoch_rsi",  params |-> <<14, 14, 3>>],
       [name |-> "vwap",       params |-> << >>],
       [name |-> "supertrend", params |-> <<10, 3>>] >>

PlanNames == {indicators_config[i].name : i \in 1..Len(indicators_config)}

(***************************************************************************)
(* What the numeric library hands to calculate_indicator for one call:     *)
(* kind "raise" (the library call throws), "none" (it returns None, its    *)
(* answer to a series shorter than the lookback) or "ok" with the last     *)
(* row of its output in v.                                                 *)
(***************************************************************************)
LibRaise == [kind |-> "raise", v |-> EmptyDict]

LibNone == [kind |-> "none", v |-> EmptyDict]

LibOk(values) == [kind |-> "ok", v |-> values]

Raised == [raised |-> TRUE, result |-> EmptyDict]

Returned(d) == [raised |-> FALSE, result |-> d]

(* the key under which the ema branch stores the reading of one period *)
EmaKey(period) == IF period = 20 THEN "ema_20" ELSE "ema_n"

(***************************************************************************)
(* calculate_indicator(df, indicator_name, params): the dict of the last   *)
(* values, or a raise (every exception leaves as ValueError).  lib is the  *)
(* library's output on df, close the last close of df.                     *)
(***************************************************************************)
calculate_indicator(indicator_name, params, lib, close) ==
    IF lib.kind = "raise" THEN Raised
    ELSE CASE indicator_name = "rsi" ->
                IF Len(params) # 1 THEN Raised
                ELSE IF lib.kind = "none" THEN Raised
                ELSE Returned([rsi |-> Round2(lib.v.rsi)])
           [] indicator_name = "macd" ->
                IF Len(params) # 3 THEN Raised
                ELSE IF lib.kind = "none" THEN Returned(EmptyDict)
                ELSE Returned([macd |-> Round2(lib.v.macd),
                               macd_signal |-> Round2(lib.v.macd_signal)])
           [] indicator_name = "ema" ->
                IF Len(params) = 0 THEN Raised
                ELSE IF lib.kind = "none" THEN Raised
                ELSE Returned([k \in {EmaKey(params[i]) : i \in 1..Len(params)}
                                 |-> Round2(lib.v.ema)])
           [] indicator_name = "bb" ->
                IF Len(params) # 2 THEN Raised
                ELSE IF lib.kind = "none" THEN Returned(EmptyDict)
                ELSE Returned([bb_upper  |-> Round2(lib.v.upper),
                               bb_middle |-> Round2(lib.v.middle),
                               bb_lower  |-> Round2(lib.v.lower)])
           [] indicator_name = "stoch" ->
                IF Len(params) # 3 THEN Raised
                ELSE IF lib.kind = "none" THEN Returned(EmptyDict)
                ELSE Returned([stoch_k |-> Round2(lib.v.k),
                               stoch_d |-> Round2(lib.v.d)])
           [] indicator_name = "atr" ->
                IF Len(params) # 1 THEN Raised
                ELSE IF lib.kind = "none" THEN Raised
                ELSE Returned([atr |-> lib.v.atr])
           [] indicator_name = "stoch_rsi" ->
                IF Len(params) # 3 THEN Raised
                ELSE IF lib.kind = "none" THEN Returned(EmptyDict)
                ELSE Returned([stoch_rsi_k |-> Round2(lib.v.k),
                               stoch_rsi_d |-> Round2(lib.v.d)])
           [] indicator_name = "vwap" ->
                IF Len(params) # 0 THEN Raised
                ELSE IF lib.kind = "none" THEN Raised
                ELSE Returned([vwap |-> lib.v.vwap,
                               price_vs_vwap |->
                                   IF Gt(close, lib.v.vwap) THEN "above" ELSE "below",
                               vwap_distance |-> Abs(close - lib.v.vwap)])
           [] indicator_name = "supertrend" ->
                IF Len(params) # 2 THEN Raised
                ELSE IF lib.kind = "none" THEN Returned(EmptyDict)
                ELSE Returned([supertrend_value |-> lib.v.value,
                               supertrend_direction |->
                                   IF lib.v.direction = 1 THEN "bullish" ELSE "bearish",
                               price_vs_supertrend |->
                                   IF Gt(close, lib.v.value) THEN "above" ELSE "below"])
           [] OTHER -> Raised

Sig(signal, weight) == [signal |-> signal, weight |-> weight]

(***************************************************************************)
(* _analyze_indicator_signal(indicator_name, result, current_price):       *)
(* (signal, weight), starting from ('neutral', 1.0).                       *)
(***************************************************************************)
analyze_rsi_inclusive(result) ==
    LET rsi_value == Get(result, "rsi", Num(50))
    IN  IF Le(rsi_value, Num(30)) THEN Sig("bullish", W(15))
        ELSE IF Ge(rsi_value, Num(70)) THEN Sig("bearish", W(15))
        ELSE IF Lt(rsi_value, Num(40)) THEN Sig("bullish", W(8))
        ELSE IF Gt(rsi_value, Num(60)) THEN Sig("bearish", W(8))
        ELSE Sig("neutral", W(10))

analyze_rsi(result) ==
    LET rsi_value == Get(result, "rsi", Num(50))
    IN  IF Lt(rsi_value, Num(30)) THEN Sig("bullish", W(15))
        ELSE IF Gt(rsi_value, Num(70)) THEN Sig("bearish", W(15))
        ELSE IF Lt(rsi_value, Num(40)) THEN Sig("bullish", W(8))
        ELSE IF Gt(rsi_value, Num(60)) THEN Sig("bearish", W(8))
        ELSE Sig("neutral", W(10))

analyze_macd(result) ==
    LET macd == Get(result, "macd", 0)
        macd_signal == Get(result, "macd_signal", 0)
    IN  IF Gt(macd, macd_signal) THEN Sig("bullish", W(12))
        ELSE IF Lt(macd, macd_signal) THEN Sig("bearish", W(12))
        ELSE Sig("neutral", W(10))

analyze_ema(result, current_price) ==
    LET ema_value == Get(result, "ema", current_price)
    IN  IF Gt(current_price, ema_value) THEN Sig("bullish", W(10))
        ELSE IF Lt(current_price, ema_value) THEN Sig("bearish", W(10))
        ELSE Sig("neutral", W(10))

analyze_bb(result, current_price) ==
    LET bb_upper == Get(result, "bb_upper", current_price)
        bb_lower == Get(result, "bb_lower", current_price)
        bb_middle == Get(result, "bb_middle", current_price)
    IN  IF Le(current_price, bb_lower) THEN Sig("bullish", W(13))
        ELSE IF Ge(current_price, bb_upper) THEN Sig("bearish", W(13))
        ELSE IF Gt(current_price, bb_middle) THEN Sig("bullish", W(7))
        ELSE IF Lt(current_price, bb_middle) THEN Sig("bearish", W(7))
        ELSE Sig("neutral", W(10))

analyze_stoch(result) ==
    LET stoch_k == Get(result, "stoch_k", Num(50))
        stoch_d == Get(result, "stoch_d", Num(50))
    IN  IF Lt(stoch_k, Num(20)) /\ Lt(stoch_d, Num(20)) THEN Sig("bullish", W(14))
        ELSE IF Gt(stoch_k, Num(80)) /\ Gt(stoch_d, Num(80)) THEN Sig("bearish", W(14))
        ELSE IF Gt(stoch_k, stoch_d) THEN Sig("bullish", W(8))
        ELSE IF Lt(stoch_k, stoch_d) THEN Sig("bearish", W(8))
        ELSE Sig("neutral", W(10))

analyze_stoch_rsi(result) ==
    LET stoch_rsi_k == Get(result, "stoch_rsi_k", Num(50))
        stoch_rsi_d == Get(result, "stoch_rsi_d", Num(50))
    IN  IF Lt(stoch_rsi_k, Num(20)) /\ Lt(stoch_rsi_d, Num(20)) THEN Sig("bullish", W(13))
        ELSE IF Gt(stoch_rsi_k, Num(80)) /\ Gt(stoch_rsi_d, Num(80)) THEN Sig("bearish", W(13))
        ELSE Sig("neutral", W(10))

analyze_vwap(result) ==
    LET price_vs_vwap == Get(result, "price_vs_vwap", "neutral")
    IN  IF price_vs_vwap = "above" THEN Sig("bullish", W(11))
        ELSE IF price_vs_vwap = "below" THEN Sig("bearish", W(11))
        ELSE Sig("neutral", W(10))

analyze_supertrend(result) ==
    LET supertrend_direction == Get(result, "supertrend_direction", "neutral")
        price_vs_supertrend == Get(result, "price_vs_supertrend", "neutral")
    IN  IF supertrend_direction = "bullish" /\ price_vs_supertrend = "above"
            THEN Sig("bullish", W(15))
        ELSE IF supertrend_direction = "bearish" /\ price_vs_supertrend = "below"
            THEN Sig("bearish", W(15))
        ELSE Sig("neutral", W(10))

analyze_indicator_signal(indicator_name, result, current_price) ==
    CASE indicator_name = "rsi" -> analyze_rsi(result)
      [] indicator_name = "macd" -> analyze_macd(result)
      [] indicator_name = "ema" -> analyze_ema(result, current_price)
      [] indicator_name = "bb" -> analyze_bb(result, current_price)
      [] indicator_name = "stoch" -> analyze_stoch(result)
      [] indicator_name = "stoch_rsi" -> analyze_stoch_rsi(result)
      [] indicator_name = "vwap" -> analyze_vwap(result)
      [] indicator_name = "supertrend" -> analyze_supertrend(result)
      [] OTHER -> Sig("neutral", W(10))

(***************************************************************************)
(* Strings the pattern code tests with startswith / in are kept as         *)
(* sequences of tokens: "Error: 'open'" is <<"Error", ":", "'open'">>.     *)
(***************************************************************************)
StartsWith(text, prefix) ==
    Len(text) >= Len(prefix) /\ SubSeq(text, 1, Len(prefix)) = prefix

Contains(text, token) == \E i \in 1..Len(text) : text[i] = token

NotDetected == <<"Not", "Detected">>

NotSupported == <<"Pattern", "Not", "Supported">>

ErrorText(msg) == <<"Error", ":", msg>>

GeneralErrorText(msg) == <<"A", "general", "error", "occurred", ":", msg>>

StatusText(direction) == <<direction, "(", "n", "signals", ")">>

StrEntry(text) == [type |-> "str", text |-> text]

(* pattern_name.lower().replace(" ", "_") on the names of the model *)
Lower(pattern_name) ==
    CASE pattern_name = "Hammer" -> "hammer"
      [] pattern_name = "Shooting Star" -> "shooting_star"
      [] OTHER -> pattern_name

pattern_name_map ==
    [hammer |-> "hammer", doji |-> "doji", engulfing |-> "engulfing",
     harami |-> "harami", morning_star |-> "morningstar", morningstar |-> "morningstar",
     evening_star |-> "eveningstar", eveningstar |-> "eveningstar",
     shooting_star |-> "shootingstar", shootingstar |-> "shootingstar",
     hanging_man |-> "hangingman", hangingman |-> "hangingman",
     inverted_hammer |-> "invertedhammer", invertedhammer |-> "invertedhammer",
     dark_cloud_cover |-> "darkcloudcover", darkcloudcover |-> "darkcloudcover",
     piercing |-> "piercing", marubozu |-> "marubozu",
     spinning_top |-> "spinningtop", spinningtop |-> "spinningtop",
     three_white_soldiers |-> "3whitesoldiers", three_black_crows |-> "3blackcrows",
     inside |-> "inside", abandoned_baby |-> "abandonedbaby",
     dragonfly_doji |-> "dragonflydoji", dragonflydoji |-> "dragonflydoji",
     gravestone_doji |-> "gravestonedoji", gravestonedoji |-> "gravestonedoji",
     long_legged_doji |-> "longleggeddoji", longleggeddoji |-> "longleggeddoji"]
     @@ ("3whitesoldiers" :> "3whitesoldiers") @@ ("3blackcrows" :> "3blackcrows")

(* the positions (timestamps) and values of the non-zero entries of a      *)
(* pattern series, oldest first                                            *)
RECURSIVE NonZero(_, _)
NonZero(series, i) ==
    IF i > Len(series) THEN << >>
    ELSE IF series[i] # 0 /\ series[i] # NaN
         THEN <<[t |-> i, value |-> series[i]]>> \o NonZero(series, i + 1)
         ELSE NonZero(series, i + 1)

(* the index of the frame: candle i of a series closes 5 * i minutes after *)
(* 07:00 of one day                                                        *)
CandleTime(i) == [hour |-> 7 + (5 * i) \div 60, minute |-> (5 * i) % 60]

(* idx.strftime('%Y-%m-%d %H:%M:%S') of line 130: the characters that      *)
(* differ between the candles of one day at whole minutes, the zero-padded *)
(* digits of the hour and of the minute                                    *)
strftime(t) ==
    <<t.hour \div 10, t.hour % 10, t.minute \div 10, t.minute % 10>>

Occurrence(nz) ==
    [timestamp |-> strftime(CandleTime(nz.t)),
     direction |-> IF nz.value > 0 THEN "Bullish" ELSE "Bearish",
     strength |-> Abs(nz.value)]

RECURSIVE MaxAbs(_)
MaxAbs(nzs) ==
    IF nzs = << >> THEN 0 ELSE Max(Abs(Head(nzs).value), MaxAbs(Tail(nzs)))

DetectedEntry(direction, bullish, bearish, strongest, non_zero_values) ==
    [type |-> "dict",
     status |-> StatusText(direction),
     total_signals |-> Len(bullish) + Len(bearish),
     bullish_count |-> Len(bullish),
     bearish_count |-> Len(bearish),
     strongest_signal |-> strongest,
     occurrences |-> [i \in 1..Len(non_zero_values) |-> Occurrence(non_zero_values[i])]]

(* lines 97-190: the entry of one pattern from the series the library gave *)
SeriesEntry(series) ==
    LET non_zero_values == NonZero(series, 1)
        bullish_signals == SelectSeq(non_zero_values, LAMBDA z : z.value > 0)
        bearish_signals == SelectSeq(non_zero_values, LAMBDA z : z.value < 0)
        bullish_count == Len(bullish_signals)
        bearish_count == Len(bearish_signals)
    IN  IF non_zero_values = << >> THEN StrEntry(NotDetected)
        ELSE IF bullish_count > bearish_count
            THEN DetectedEntry("Bullish", bullish_signals, bearish_signals,
                               MaxAbs(bullish_signals), non_zero_values)
        ELSE IF bearish_count > bullish_count
            THEN DetectedEntry("Bearish", bullish_signals, bearish_signals,
                               MaxAbs(bearish_signals), non_zero_values)
        ELSE IF non_zero_values[Len(non_zero_values)].value > 0
            THEN DetectedEntry("Bullish", bullish_signals, bearish_signals,
                               MaxAbs(non_zero_values), non_zero_values)
        ELSE DetectedEntry("Bearish", bullish_signals, bearish_signals,
                           MaxAbs(non_zero_values), non_zero_values)

Item(name, data) == [name |-> name, data |-> data]

(***************************************************************************)
(* calculate_candlestick_patterns(df, patterns): the ordered dict          *)
(* name -> entry, as a sequence of items in insertion order.  lib[name] is *)
(* the library's answer for that pattern on df.  A raise of cdl_doji or    *)
(* cdl_inside (they are called outside the inner try) leaves the loop and  *)
(* adds the "patterns_error" entry.                                        *)
(***************************************************************************)
RECURSIVE cp_loop(_, _, _, _)
cp_loop(patterns, lib, i, result) ==
    IF i > Len(patterns) THEN result
    ELSE LET pattern_name == patterns[i]
             pattern_lower == Lower(pattern_name)
             ta_pattern_name == Get(pattern_name_map, pattern_lower, "")
             out == lib[pattern_name]
         IN  IF ta_pattern_name = ""
                 THEN cp_loop(patterns, lib, i + 1,
                              Append(result, Item(pattern_name, StrEntry(NotSupported))))
             ELSE IF out.kind = "raise"
                 THEN IF ta_pattern_name \in {"doji", "inside"}
                      THEN Append(result, Item("patterns_error",
                                               StrEntry(GeneralErrorText(out.msg))))
                      ELSE cp_loop(patterns, lib, i + 1,
                                   Append(result, Item(pattern_name,
                                                       StrEntry(ErrorText(out.msg)))))
             ELSE IF out.kind = "none"
                 THEN cp_loop(patterns, lib, i + 1,
                              Append(result, Item(pattern_name, StrEntry(NotDetected))))
             ELSE cp_loop(patterns, lib, i + 1,
                          Append(result, Item(pattern_name, SeriesEntry(out.series))))

calculate_candlestick_patterns(patterns, lib) == cp_loop(patterns, lib, 1, << >>)

(***************************************************************************)
(* get_pattern_signals(patterns)                                           *)
(***************************************************************************)
bullish_table ==
    {"hammer", "morning_star", "three_white_soldiers", "piercing",
     "inverted_hammer", "dragonfly_doji"}

bearish_table ==
    {"shooting_star", "evening_star", "three_black_crows",
     "dark_cloud_cover", "hanging_man", "gravestone_doji"}

neutral_table == {"doji", "spinning_top", "long_legged_doji", "inside"}

(* data['status'] of the detailed format, the string itself of the old one *)
TextOf(data) == IF data.type = "dict" THEN data.status ELSE data.text

(* lines 296-303: is this entry a detected pattern *)
IsDetected(data) ==
    /\ TextOf(data) # NotDetected
    /\ ~StartsWith(TextOf(data), <<"Error">>)
    /\ ~StartsWith(TextOf(data), NotSupported)

(* lines 318-338: the list a detected pattern is appended to *)
Classify(pattern, data) ==
    IF Contains(TextOf(data), "Bullish") \/ pattern \in bullish_table THEN "bullish"
    ELSE IF Contains(TextOf(data), "Bearish") \/ pattern \in bearish_table THEN "bearish"
    ELSE IF pattern \in neutral_table THEN "neutral"
    ELSE "none"

NamesOf(items) == [i \in 1..Len(items) |-> items[i].name]

RECURSIVE SumTotalSignals(_)
SumTotalSignals(items) ==
    IF items = << >> THEN 0
    ELSE (IF Head(items).data.type = "dict" THEN Head(items).data.total_signals ELSE 0)
         + SumTotalSignals(Tail(items))

RECURSIVE AllOccurrences(_)
AllOccurrences(items) ==
    IF items = << >> THEN << >>
    ELSE LET it == Head(items)
             occ == IF it.data.type = "dict" THEN it.data.occurrences ELSE << >>
         IN  [i \in 1..Len(occ) |->
                 [pattern |-> it.name, timestamp |-> occ[i].timestamp,
                  direction |-> occ[i].direction, strength |-> occ[i].strength]]
             \o AllOccurrences(Tail(items))

(* Python's < on str: lexicographic, a proper prefix is the smaller *)
RECURSIVE StrLt(_, _)
StrLt(a, b) ==
    IF b = << >> THEN FALSE
    ELSE IF a = << >> THEN TRUE
    ELSE IF Head(a) # Head(b) THEN Head(a) < Head(b)
    ELSE StrLt(Tail(a), Tail(b))

RECURSIVE InsertDesc_ascending(_, _)
InsertDesc_ascending(sorted, x) ==
    IF sorted = << >> THEN <<x>>
    ELSE IF ~StrLt(x.timestamp, Head(sorted).timestamp)
         THEN <<Head(sorted)>> \o InsertDesc_ascending(Tail(sorted), x)
         ELSE <<x>> \o sorted

(* list.sort(key=timestamp, reverse=True): stable, most recent first *)
RECURSIVE InsertDesc(_, _)
InsertDesc(sorted, x) ==
    IF sorted = << >> THEN <<x>>
    ELSE IF ~StrLt(Head(sorted).timestamp, x.timestamp)
         THEN <<Head(sorted)>> \o InsertDesc(Tail(sorted), x)
         ELSE <<x>> \o sorted

RECURSIVE SortDesc(_)
SortDesc(occs) ==
    IF occs = << >> THEN << >>
    ELSE InsertDesc(SortDesc(SubSeq(occs, 1, Len(occs) - 1)), occs[Len(occs)])

Take(seq, n) == SubSeq(seq, 1, IF Len(seq) < n THEN Len(seq) ELSE n)

overall_signal_ties_bullish(bullish_count, bearish_count) ==
    IF bullish_count >= bearish_count THEN "bullish"
    ELSE IF bearish_count > bullish_count THEN "bearish"
    ELSE "neutral"

(* lines 346-352 *)
overall_signal(bullish_count, bearish_count) ==
    IF bullish_count > bearish_count THEN "bullish"
    ELSE IF bearish_count > bullish_count THEN "bearish"
    ELSE "neutral"

(* lines 354-361 *)
signal_strength(total_patterns) ==
    IF total_patterns >= 3 THEN "strong"
    ELSE IF total_patterns >= 2 THEN "moderate"
    ELSE "weak"

get_pattern_signals_by_table(patterns) ==
    LET detected == SelectSeq(patterns, LAMBDA it : IsDetected(it.data))
        bullish == SelectSeq(detected, LAMBDA it : Classify(it.name, it.data) = "bullish")
        bearish == SelectSeq(detected, LAMBDA it : Classify(it.name, it.data) = "bearish")
        neutral == SelectSeq(detected, LAMBDA it : it.name \in neutral_table)
        bullish_count == Len(bullish)
        bearish_count == Len(bearish)
        neutral_count == Len(neutral)
        total_patterns == bullish_count + bearish_count + neutral_count
    IN  [overall_signal |-> overall_signal(bullish_count, bearish_count),
         signal_strength |-> signal_strength(total_patterns),
         detected_patterns |-> NamesOf(detected),
         bullish_patterns |-> NamesOf(bullish),
         bearish_patterns |-> NamesOf(bearish),
         neutral_patterns |-> NamesOf(neutral),
         total_occurrences |-> SumTotalSignals(detected),
         recent_patterns |-> Take(SortDesc(AllOccurrences(detected)), 10)]

get_pattern_signals(patterns) ==
    LET detected == SelectSeq(patterns, LAMBDA it : IsDetected(it.data))
        bullish == SelectSeq(detected, LAMBDA it : Classify(it.name, it.data) = "bullish")
        bearish == SelectSeq(detected, LAMBDA it : Classify(it.name, it.data) = "bearish")
        neutral == SelectSeq(detected, LAMBDA it : Classify(it.name, it.data) = "neutral")
        bullish_count == Len(bullish)
        bearish_count == Len(bearish)
        neutral_count == Len(neutral)
        total_patterns == bullish_count + bearish_count + neutral_count
    IN  [overall_signal |-> overall_signal(bullish_count, bearish_count),
         signal_strength |-> signal_strength(total_patterns),
         detected_patterns |-> NamesOf(detected),
         bullish_patterns |-> NamesOf(bullish),
         bearish_patterns |-> NamesOf(bearish),
         neutral_patterns |-> NamesOf(neutral),
         total_occurrences |-> SumTotalSignals(detected),
         recent_patterns |-> Take(SortDesc(AllOccurrences(detected)), 10)]

(***************************************************************************)
(* Ratios and the decision rule of predict_binary_options (lines 94-107).  *)
(***************************************************************************)
Ratio(n, d) == [num |-> n, den |-> d]

RatioGt_inclusive(r, n, d) == r.num * d >= n * r.den

(* r > n/d, r < n/d, r = n/d for a ratio r with positive denominator *)
RatioGt(r, n, d) == r.num * d > n * r.den

RatioLt(r, n, d) == r.num * d < n * r.den

RatioEq(r, n, d) == r.num * d = n * r.den

Cap95_uncapped(r) == r

(* min(r, 0.95) *)
Cap95(r) == IF RatioGt(r, 95, 100) THEN Ratio(95, 100) ELSE r

Decision(prediction, confidence) == [prediction |-> prediction, confidence |-> confidence]

is_call_on_half(bullish_ratio) == RatioGt(bullish_ratio, 5, 10)

(* line 99 *)
is_call(bullish_ratio) == RatioGt(bullish_ratio, 6, 10)

is_put_loose(bearish_ratio) == RatioGt(bearish_ratio, 4, 10)

(* line 102 *)
is_put(bearish_ratio) == RatioGt(bearish_ratio, 6, 10)

neutral_confidence_plain(bullish, bearish, total) == Ratio(Abs(bullish - bearish), total)

(* line 107: 1 - abs(bullish_ratio - bearish_ratio) *)
neutral_confidence(bullish, bearish, total) ==
    Ratio(total - Abs(bullish - bearish), total)

decide_threshold_half(bullish, bearish, total) ==
    IF total > 0
    THEN LET bullish_ratio == Ratio(bullish, total)
             bearish_ratio == Ratio(bearish, total)
         IN  IF RatioGt(bullish_ratio, 5, 10)
                 THEN Decision("call", Cap95(bullish_ratio))
             ELSE IF RatioGt(bearish_ratio, 5, 10)
                 THEN Decision("put", Cap95(bearish_ratio))
             ELSE Decision("neutral", Ratio(total - Abs(bullish - bearish), total))
    ELSE Decision("neutral", Ratio(0, 1))

decide(bullish, bearish, total) ==
    IF total > 0
    THEN LET bullish_ratio == Ratio(bullish, total)
             bearish_ratio == Ratio(bearish, total)
         IN  IF is_call(bullish_ratio)
                 THEN Decision("call", Cap95(bullish_ratio))
             ELSE IF is_put(bearish_ratio)
                 THEN Decision("put", Cap95(bearish_ratio))
             ELSE Decision("neutral", neutral_confidence(bullish, bearish, total))
    ELSE Decision("neutral", Ratio(0, 1))

signals_record_unguarded(bullish, bearish, total, signal_weights) ==
    [bullish_signals |-> bullish,
     bearish_signals |-> bearish,
     total_signals |-> total,
     bullish_ratio |-> Ratio(bullish, total),
     bearish_ratio |-> Ratio(bearish, total),
     signal_breakdown |-> signal_weights]

(* lines 110-117: prediction['signals']; max(total_signals, 1) is 10 tenths *)
signals_record(bullish, bearish, total, signal_weights) ==
    [bullish_signals |-> bullish,
     bearish_signals |-> bearish,
     total_signals |-> total,
     bullish_ratio |-> Ratio(bullish, Max(total, W(10))),
     bearish_ratio |-> Ratio(bearish, Max(total, W(10))),
     signal_breakdown |-> signal_weights]

(***************************************************************************)
(* _assess_risk(df, confidence).  market is what the function reads from   *)
(* df: the standard deviation of the returns and the coefficient of        *)
(* variation of the last ten volumes, or a raise of one of the reads.      *)
(***************************************************************************)
assess_risk_unknown(market, confidence) ==
    IF market.raises THEN "unknown"
    ELSE IF RatioGt(confidence, 8, 10) /\ Lt(market.volatility, Num(2) \div 100)
                                       /\ Lt(market.volume_cv, Num(1))
        THEN "low"
    ELSE IF RatioGt(confidence, 6, 10) /\ Lt(market.volatility, Num(5) \div 100)
        THEN "medium"
    ELSE IF Gt(market.volatility, Num(8) \div 100) \/ Gt(market.volume_cv, Num(2))
        THEN "high"
    ELSE "medium"

assess_risk(market, confidence) ==
    IF market.raises THEN "medium"
    ELSE IF RatioGt(confidence, 8, 10) /\ Lt(market.volatility, Num(2) \div 100)
                                       /\ Lt(market.volume_cv, Num(1))
        THEN "low"
    ELSE IF RatioGt(confidence, 6, 10) /\ Lt(market.volatility, Num(5) \div 100)
        THEN "medium"
    ELSE IF Gt(market.volatility, Num(8) \div 100) \/ Gt(market.volume_cv, Num(2))
        THEN "high"
    ELSE "medium"

Round4Half_floor(h) == (h \div 20) * 10

(* round(x, 4) of the half-unit quantity h/2 *)
Round4Half(h) == ((h + 10) \div 20) * 10

(***************************************************************************)
(* _generate_entry_suggestions(df, prediction).  rng is what it reads from *)
(* df: the mean 14-candle high-low range, or a raise of one of the reads.  *)
(***************************************************************************)
generate_entry_suggestions(rng, current_price, pred) ==
    IF rng.raises THEN [error |-> TRUE]
    ELSE IF pred.prediction \in {"call", "put"}
    THEN [entry_timing |->
              IF RatioGt(pred.confidence, 8, 10) THEN "immediate"
              ELSE IF RatioGt(pred.confidence, 6, 10) THEN "wait_for_confirmation"
              ELSE "avoid",
          position_size |->
              IF pred.risk_assessment = "high" THEN "small" ELSE "normal",
          stop_loss |->
              IF rng.avg_atr = NaN THEN NaN
              ELSE IF pred.prediction = "call"
                   THEN Round4Half(2 * current_price - rng.avg_atr)
                   ELSE Round4Half(2 * current_price + rng.avg_atr),
          take_profit |->
              IF rng.avg_atr = NaN THEN NaN
              ELSE IF pred.prediction = "call"
                   THEN Round4Half(2 * current_price + 2 * rng.avg_atr)
                   ELSE Round4Half(2 * current_price - 2 * rng.avg_atr),
          recommended_timeframes |->
              IF RatioGt(pred.confidence, 7, 10) THEN <<"5m", "15m">> ELSE <<"1m", "5m">>]
    ELSE [entry_timing |-> "avoid", reason |-> "No clear directional bias detected"]

(***************************************************************************)
(* Inputs.  A DataFrame enters the model through what the code reads from  *)
(* it: the last close, the library's answer to each indicator and pattern  *)
(* call, and the statistics of the risk and entry helpers.                 *)
(***************************************************************************)
Closes == {Num(100)}

(* library answers per planned indicator in a full prediction run *)
LibOutcomes(name, close) ==
    CASE name = "rsi" ->
            {LibRaise, LibOk([rsi |-> Num(25)]), LibOk([rsi |-> Num(65)])}
      [] name = "macd" ->
            {LibRaise, LibNone, LibOk([macd |-> 2000, macd_signal |-> 1000]),
             LibOk([macd |-> 1000, macd_signal |-> 2000])}
      [] name = "ema" ->
            {LibRaise, LibOk([ema |-> close - 1000])}
      [] name = "bb" ->
            {LibRaise, LibNone,
             LibOk([upper |-> close + 1000, middle |-> close, lower |-> close - 1000])}
      [] name = "stoch" ->
            {LibRaise, LibOk([k |-> Num(10), d |-> Num(15)]),
             LibOk([k |-> Num(40), d |-> Num(50)])}
      [] name = "atr" ->
            {LibRaise, LibOk([atr |-> 1500])}
      [] name = "stoch_rsi" ->
            {LibRaise, LibOk([k |-> Num(90), d |-> Num(85)]),
             LibOk([k |-> Num(50), d |-> Num(50)])}
      [] name = "vwap" ->
            {LibRaise, LibOk([vwap |-> close - 1000]), LibOk([vwap |-> close])}
      [] name = "supertrend" ->
            {LibRaise, LibOk([value |-> close - 1000, direction |-> 1]),
             LibOk([value |-> close + 1000, direction |-> 0 - 1])}
      [] OTHER -> {LibRaise}

(* how far, in steps of 0.004, the detailed readings go around a threshold *)
MaxOffset == 2

Offsets == {k * 400 : k \in (0 - MaxOffset)..MaxOffset}

Around(c) == {c + o : o \in Offsets}

FineCloses == {Num(100), Num(100) + 300}

Levels == {Num(10), Num(20), Num(50), Num(80), Num(90)}

(* library answers for the study of one indicator at a time *)
RichLibOutcomes(name, close) ==
    {LibRaise, LibNone} \cup
    CASE name = "rsi" ->
            {LibOk([rsi |-> v]) :
                v \in Around(Num(30)) \cup Around(Num(40)) \cup Around(Num(60))
                      \cup Around(Num(70)) \cup {Num(50), NaN}}
      [] name = "macd" ->
            {LibOk([macd |-> m, macd_signal |-> sg]) : m \in Around(0), sg \in {0, NaN}}
      [] name = "ema" ->
            {LibOk([ema |-> v]) : v \in Around(close)}
      [] name = "bb" ->
            {LibOk([upper |-> close + d + h, middle |-> close + d, lower |-> close + d - h]) :
                d \in {0 - 2000, 0 - 1000, 0, 1000, 2000}, h \in {0, 1000, 2000}}
      [] name = "stoch" ->
            {LibOk([k |-> k, d |-> d]) : k \in Levels, d \in Levels}
      [] name = "atr" ->
            {LibOk([atr |-> 1500])}
      [] name = "stoch_rsi" ->
            {LibOk([k |-> k, d |-> d]) : k \in Levels, d \in Levels}
      [] name = "vwap" ->
            {LibOk([vwap |-> v]) : v \in Around(close)}
      [] name = "supertrend" ->
            {LibOk([value |-> v, direction |-> d]) : v \in Around(close), d \in {1, 0 - 1}}
      [] OTHER -> {}

PNone == [kind |-> "none", msg |-> "", series |-> << >>]

PRaise(msg) == [kind |-> "raise", msg |-> msg, series |-> << >>]

PSeries(series) == [kind |-> "ok", msg |-> "", series |-> series]

default_patterns ==
    <<"doji", "hammer", "shootingstar", "engulfing", "harami",
      "morningstar", "eveningstar", "3whitesoldiers", "3blackcrows",
      "darkcloudcover", "piercing", "hangingman", "invertedhammer",
      "spinningtop", "marubozu", "dragonflydoji", "gravestonedoji",
      "longleggeddoji", "inside">>

Names(list) == {list[i] : i \in 1..Len(list)}

AllNone(list) == [n \in Names(list) |-> PNone]

Up == <<0, 100, 0>>

Down == <<0, 0 - 100, 0>>

(* library answers to the pattern calls of a full prediction run *)
PatternLibs ==
    {AllNone(default_patterns),
     [AllNone(default_patterns) EXCEPT !["hammer"] = PSeries(Up)],
     [AllNone(default_patterns) EXCEPT !["hammer"] = PSeries(Down)],
     [AllNone(default_patterns) EXCEPT !["engulfing"] = PSeries(Up),
                                       !["harami"] = PSeries(Up)],
     [AllNone(default_patterns) EXCEPT !["hammer"] = PSeries(Up),
                                       !["engulfing"] = PSeries(Up),
                                       !["harami"] = PSeries(Up)],
     [AllNone(default_patterns) EXCEPT !["shootingstar"] = PSeries(Down),
                                       !["engulfing"] = PSeries(Down),
                                       !["marubozu"] = PSeries(Down)],
     [AllNone(default_patterns) EXCEPT !["engulfing"] = PRaise("'open'"),
                                       !["marubozu"] = PSeries(Down)],
     [AllNone(default_patterns) EXCEPT !["doji"] = PRaise("'open'")]}

(* what _assess_risk and _generate_entry_suggestions read from df *)
Markets ==
    {[raises |-> FALSE, volatility |-> 1000, volume_cv |-> Num(1) \div 2, avg_atr |-> 3000],
     [raises |-> FALSE, volatility |-> 10000, volume_cv |-> Num(3), avg_atr |-> 3001],
     [raises |-> TRUE, volatility |-> NaN, volume_cv |-> NaN, avg_atr |-> NaN]}

(***************************************************************************)
(* State of one call of predict_binary_options.                            *)
(***************************************************************************)
VARIABLES
    pc,               \* "start", "indicators", "patterns", "conclude", "done"
    idx,              \* position of the for loop in indicators_config
    current_price,    \* float(df['close'].iloc[-1])
    bullish_signals,
    bearish_signals,
    total_signals,
    signal_weights,   \* indicator name -> (signal, weight)
    prediction,       \* the dict that is returned
    patterns,         \* the detection map of calculate_candlestick_patterns
    lib_log,          \* the library's answer to each indicator call so far
    request,          \* the request an HTTP route was called with
    response,         \* what the route answered
    args,             \* the arguments of a helper that is called on its own
    result            \* what the helper returned

vars == <<pc, idx, current_price, bullish_signals, bearish_signals,
          total_signals, signal_weights, prediction, patterns, lib_log,
          request, response, args, result>>

(* the variables of the routes and of the helpers called on their own *)
study == <<request, response, args, result>>

(* lines 23-31 *)
InitialPrediction ==
    [prediction |-> "neutral",
     confidence |-> Ratio(0, 1),
     signals |-> EmptyDict,
     indicator_scores |-> EmptyDict,
     pattern_analysis |-> EmptyDict,
     risk_assessment |-> "medium",
     entry_suggestions |-> EmptyDict,
     has_error |-> FALSE]

(* the locals of predict_binary_options before its first statement *)
Idle ==
    /\ pc = "start"
    /\ idx = 1
    /\ current_price = 0
    /\ bullish_signals = 0
    /\ bearish_signals = 0
    /\ total_signals = 0
    /\ signal_weights = EmptyDict
    /\ prediction = InitialPrediction
    /\ patterns = << >>
    /\ lib_log = << >>

Init ==
    /\ Idle
    /\ request = EmptyDict
    /\ response = EmptyDict
    /\ args = EmptyDict
    /\ result = EmptyDict

(* line 34 succeeds: the series has a last close *)
ReadCloseFrom(closes) ==
    /\ pc = "start"
    /\ \E close \in closes : current_price' = close
    /\ pc' = "indicators"
    /\ UNCHANGED <<idx, bullish_signals, bearish_signals, total_signals,
                   signal_weights, prediction, patterns, lib_log>>
    /\ UNCHANGED study

ReadClose == ReadCloseFrom(Closes)

(* line 34 raises: lines 128-131 *)
PipelineFails ==
    /\ pc = "start"
    /\ prediction' = [prediction EXCEPT !.has_error = TRUE,
                                        !.prediction = "neutral",
                                        !.confidence = Ratio(0, 1)]
    /\ pc' = "done"
    /\ UNCHANGED <<idx, current_price, bullish_signals, bearish_signals,
                   total_signals, signal_weights, patterns, lib_log>>
    /\ UNCHANGED study

AfterRaise_break(i) == Len(indicators_config) + 1

(* where the for loop goes after an indicator raised: continue *)
AfterRaise(i) == i + 1

LoopBody_neutral_free(lib) ==
    LET name == indicators_config[idx].name
        params == indicators_config[idx].params
        call == calculate_indicator(name, params, lib, current_price)
        sw == analyze_indicator_signal(name, call.result, current_price)
    IN  /\ lib_log' = Append(lib_log, lib)
        /\ IF call.raised
           THEN /\ idx' = AfterRaise(idx)
                /\ UNCHANGED <<bullish_signals, bearish_signals, total_signals,
                               signal_weights, prediction>>
           ELSE /\ prediction' = [prediction EXCEPT !.indicator_scores =
                                      (name :> call.result) @@ @]
                /\ signal_weights' = (name :> sw) @@ signal_weights
                /\ bullish_signals' = IF sw.signal = "bullish"
                                      THEN bullish_signals + sw.weight
                                      ELSE bullish_signals
                /\ bearish_signals' = IF sw.signal = "bearish"
                                      THEN bearish_signals + sw.weight
                                      ELSE bearish_signals
                /\ total_signals' = IF sw.signal = "neutral" THEN total_signals
                                    ELSE total_signals + sw.weight
                /\ idx' = idx + 1
        /\ UNCHANGED <<pc, current_price, patterns>>
        /\ UNCHANGED study

(* lines 55-73: one iteration of the loop, lib the library's answer *)
LoopBody(lib) ==
    LET name == indicators_config[idx].name
        params == indicators_config[idx].params
        call == calculate_indicator(name, params, lib, current_price)
        sw == analyze_indicator_signal(name, call.result, current_price)
    IN  /\ lib_log' = Append(lib_log, lib)
        /\ IF call.raised
           THEN /\ idx' = AfterRaise(idx)
                /\ UNCHANGED <<bullish_signals, bearish_signals, total_signals,
                               signal_weights, prediction>>
           ELSE /\ prediction' = [prediction EXCEPT !.indicator_scores =
                                      (name :> call.result) @@ @]
                /\ signal_weights' = (name :> sw) @@ signal_weights
                /\ bullish_signals' = IF sw.signal = "bullish"
                                      THEN bullish_signals + sw.weight
                                      ELSE bullish_signals
                /\ bearish_signals' = IF sw.signal = "bearish"
                                      THEN bearish_signals + sw.weight
                                      ELSE bearish_signals
                /\ total_signals' = total_signals + sw.weight
                /\ idx' = idx + 1
        /\ UNCHANGED <<pc, current_price, patterns>>
        /\ UNCHANGED study

AnalyzeIndicator ==
    /\ pc = "indicators"
    /\ idx <= Len(indicators_config)
    /\ \E lib \in LibOutcomes(indicators_config[idx].name, current_price) : LoopBody(lib)

pattern_weight_flat(pattern_signals) == W(10)

(* the weight a pattern aggregate adds (lines 82-89) *)
pattern_weight(pattern_signals) ==
    IF pattern_signals.signal_strength = "strong" THEN W(20) ELSE W(10)

(* lines 75-92, libs the pattern library's possible answers on df *)
AnalyzePatternsFrom(libs) ==
    /\ pc = "indicators"
    /\ idx > Len(indicators_config)
    /\ \E lib \in libs :
         LET detection == calculate_candlestick_patterns(default_patterns, lib)
             pattern_signals == get_pattern_signals(detection)
         IN  /\ patterns' = detection
             /\ prediction' = [prediction EXCEPT !.pattern_analysis = pattern_signals]
             /\ bullish_signals' = IF pattern_signals.overall_signal = "bullish"
                                   THEN bullish_signals + pattern_weight(pattern_signals)
                                   ELSE bullish_signals
             /\ bearish_signals' = IF pattern_signals.overall_signal = "bearish"
                                   THEN bearish_signals + pattern_weight(pattern_signals)
                                   ELSE bearish_signals
             /\ total_signals' = IF pattern_signals.overall_signal \in {"bullish", "bearish"}
                                 THEN total_signals + pattern_weight(pattern_signals)
                                 ELSE total_signals
    /\ pc' = "conclude"
    /\ UNCHANGED <<idx, current_price, signal_weights, lib_log>>
    /\ UNCHANGED study

AnalyzePatterns == AnalyzePatternsFrom(PatternLibs)

(* lines 94-126, markets what the helpers can read from df *)
ConcludeFrom(markets) ==
    /\ pc = "conclude"
    /\ \E market \in markets :
         LET d == decide(bullish_signals, bearish_signals, total_signals)
             risk == assess_risk(market, d.confidence)
             p1 == [prediction EXCEPT
                       !.prediction = d.prediction,
                       !.confidence = d.confidence,
                       !.signals = signals_record(bullish_signals, bearish_signals,
                                                  total_signals, signal_weights),
                       !.risk_assessment = risk]
         IN  prediction' = [p1 EXCEPT !.entry_suggestions =
                                generate_entry_suggestions(market, current_price, p1)]
    /\ pc' = "done"
    /\ UNCHANGED <<idx, current_price, bullish_signals, bearish_signals,
                   total_signals, signal_weights, patterns, lib_log>>
    /\ UNCHANGED study

Conclude == ConcludeFrom(Markets)

(* line 34 on a close that is not a multiple of 0.01 as well *)
ReadFineClose == ReadCloseFrom(FineCloses)

(* the loop body on the detailed readings, up to the first indicator that  *)
(* yields a signal                                                         *)
AnalyzeIndicatorRich ==
    /\ pc = "indicators"
    /\ idx <= Len(indicators_config)
    /\ signal_weights = EmptyDict
    /\ \E lib \in RichLibOutcomes(indicators_config[idx].name, current_price) : LoopBody(lib)

NextInterp ==
    \/ ReadFineClose
    \/ AnalyzeIndicatorRich

SpecInterp == Init /\ [][NextInterp]_vars

Next ==
    \/ ReadClose
    \/ PipelineFails
    \/ AnalyzeIndicator
    \/ AnalyzePatterns
    \/ Conclude

Spec == Init /\ [][Next]_vars

(***************************************************************************)
(* The HTTP routes: app/routes.py (the router of main_new.py) and the      *)
(* legacy endpoints of main.py.  A request is the validated request-model  *)
(* object, a function from the field names of its model to values; the     *)
(* read of an attribute the model does not define raises AttributeError.   *)
(* ohlc_data is kept as its length and whether every candle carries a      *)
(* usable time.  What a successful predict_binary_options or indicator     *)
(* call returns is kept as a token: the routes only pass it on.            *)
(***************************************************************************)
HasAttr(obj, name) == name \in DOMAIN obj

(* the null of an Optional numeric field *)
None == 0 - 1

(* a list of n candles; timed is FALSE when some candle has no usable time *)
Candles(n, timed) == [len |-> n, timed |-> timed]

(* models.py 64-68 and main.py 39-43: the same three fields *)
BinaryOptionsRequest(ohlc_data, prediction_timeframe, confidence_threshold) ==
    [ohlc_data |-> ohlc_data,
     prediction_timeframe |-> prediction_timeframe,
     confidence_threshold |-> confidence_threshold]

(* models.py 57-61; indicators is the dict name -> params in insertion order *)
AnalysisRequest(indicators, ohlc_data, include_patterns) ==
    [indicators |-> indicators,
     ohlc_data |-> ohlc_data,
     include_patterns |-> include_patterns]

(* main.py 33-37 *)
LegacyAnalysisRequest(indicators, ohlc_data, candlestick_patterns) ==
    [indicators |-> indicators,
     ohlc_data |-> ohlc_data,
     candlestick_patterns |-> candlestick_patterns]

HTTPException(status_code, detail) ==
    [status_code |-> status_code, detail |-> detail, body |-> EmptyDict]

Ok200(body) == [status_code |-> 200, detail |-> "", body |-> body]

(* utils.py 11-48: get_time raises for an untimed candle (HTTPException    *)
(* 400), df['time'] raises KeyError on the frame of an empty list          *)
convert_ohlc_to_dataframe(ohlc_data) ==
    IF ohlc_data.len > 0 /\ ~ohlc_data.timed THEN [raised |-> TRUE, len |-> 0]
    ELSE IF ohlc_data.len = 0 THEN [raised |-> TRUE, len |-> 0]
    ELSE [raised |-> FALSE, len |-> ohlc_data.len]

(* routes.py 116-154, POST /predict *)
predict_binary_options_direction(req) ==
    IF ~HasAttr(req, "data")
        THEN HTTPException(400, "Prediction error")
    ELSE LET df == convert_ohlc_to_dataframe(req["data"])
         IN  IF df.raised THEN HTTPException(400, "Prediction error")
             ELSE IF df.len < 30 THEN HTTPException(400, "Prediction error")
             ELSE IF ~HasAttr(req, "timeframe_minutes")
                 THEN HTTPException(400, "Prediction error")
             ELSE Ok200([status |-> "success", prediction |-> "PredictionResult"])

predict_binary_options_endpoint_unchecked(req) ==
    IF req.confidence_threshold = None
        THEN HTTPException(500, "Prediction error")
    ELSE IF ~(50 <= req.confidence_threshold /\ req.confidence_threshold <= 100)
        THEN HTTPException(400, "Confidence threshold must be between 0.5 and 1.0")
    ELSE IF ~req.ohlc_data.timed \/ req.ohlc_data.len = 0
        THEN HTTPException(500, "Prediction error")
    ELSE Ok200([prediction |-> "PredictionResult"])

(* main.py 696-741, POST /predict-binary-options; confidence_threshold in  *)
(* hundredths                                                              *)
predict_binary_options_endpoint(req) ==
    IF req.ohlc_data.len = 0
        THEN HTTPException(400, "OHLC data cannot be empty")
    ELSE IF req.ohlc_data.len < 20
        THEN HTTPException(400, "Need at least 20 data points")
    ELSE IF req.confidence_threshold = None
        THEN HTTPException(500, "Prediction error")
    ELSE IF ~(50 <= req.confidence_threshold /\ req.confidence_threshold <= 100)
        THEN HTTPException(400, "Confidence threshold must be between 0.5 and 1.0")
    ELSE IF ~req.ohlc_data.timed
        THEN HTTPException(500, "Prediction error")
    ELSE Ok200([prediction |-> "PredictionResult"])

(* routes.py 29-113, POST /analyze.  request.indicators is a dict, so the  *)
(* for loop yields its keys and line 48 reads .name of a str               *)
analyze_indicators(req) ==
    IF ~HasAttr(req, "data")
        THEN HTTPException(400, "Analysis error")
    ELSE LET df == convert_ohlc_to_dataframe(req["data"])
         IN  IF df.raised THEN HTTPException(400, "Analysis error")
             ELSE IF req.indicators # << >> THEN HTTPException(400, "Analysis error")
             ELSE Ok200([status |-> "success", data |-> [market_info |-> "market_info"]])

(* main.py 72-170: the parameter counts of the legacy calculate_indicator *)
legacy_param_count ==
    [rsi |-> 1, macd |-> 3, sma |-> 1, ema |-> 1, bb |-> 2, bollinger |-> 2,
     stoch |-> 3, stochastic |-> 3]

(* does the legacy calculate_indicator raise ValueError on (name, params) *)
legacy_indicator_raises(name, params) ==
    \/ ~HasAttr(legacy_param_count, name)
    \/ Len(params) # legacy_param_count[name]

(* main.py 787-792: results after the loop, or the ValueError that ended it *)
RECURSIVE legacy_indicator_loop(_, _)
legacy_indicator_loop(indicators, results) ==
    IF indicators = << >> THEN [raised |-> FALSE, results |-> results]
    ELSE LET it == Head(indicators)
         IN  IF legacy_indicator_raises(it.name, it.params)
             THEN [raised |-> TRUE, results |-> results]
             ELSE legacy_indicator_loop(Tail(indicators),
                                        (it.name :> "reading") @@ results)

(* main.py 758-807, POST /analyze of the legacy application *)
analyze_technical_indicators(req) ==
    IF req.ohlc_data.len = 0
        THEN HTTPException(400, "OHLC data cannot be empty")
    ELSE IF req.indicators = << >>
        THEN HTTPException(400, "Indicators cannot be empty")
    ELSE IF ~req.ohlc_data.timed
        THEN HTTPException(500, "Internal server error")
    ELSE IF req.ohlc_data.len < 2
        THEN HTTPException(400, "Need at least 2 data points for analysis")
    ELSE LET loop == legacy_indicator_loop(req.indicators, EmptyDict)
         IN  IF loop.raised THEN HTTPException(400, "Error calculating indicator")
             ELSE Ok200(loop.results)

(* requests *)
CandleCounts == {0, 1, 10, 19, 20, 29, 30, 40}

CandleLists == {Candles(n, timed) : n \in CandleCounts, timed \in BOOLEAN}

Thresholds == {40, 60, None}

PredictRequests ==
    {BinaryOptionsRequest(c, 2, t) : c \in CandleLists, t \in Thresholds}

IndicatorRequest(name, params) == [name |-> name, params |-> params]

IndicatorRequests ==
    {IndicatorRequest("rsi", <<14>>), IndicatorRequest("ema", <<20>>),
     IndicatorRequest("rsi", << >>), IndicatorRequest("foo", <<1>>)}

IndicatorBatches ==
    {<< >>} \cup {<<a>> : a \in IndicatorRequests}
            \cup {<<a, b>> : a \in IndicatorRequests, b \in IndicatorRequests}

AnalysisCandleLists == {Candles(n, TRUE) : n \in {0, 1, 30}}

Requests ==
    {[endpoint |-> e, model |-> m] :
        e \in {"/predict", "/predict-binary-options"}, m \in PredictRequests}
    \cup {[endpoint |-> "/analyze", model |-> AnalysisRequest(b, c, FALSE)] :
            b \in IndicatorBatches, c \in AnalysisCandleLists}
    \cup {[endpoint |-> "legacy /analyze", model |-> LegacyAnalysisRequest(b, c, "None")] :
            b \in IndicatorBatches, c \in AnalysisCandleLists}

InitRoutes ==
    /\ Idle
    /\ request \in Requests
    /\ response = EmptyDict
    /\ args = EmptyDict
    /\ result = EmptyDict

Serve(endpoint, answer) ==
    /\ pc = "start"
    /\ request.endpoint = endpoint
    /\ response' = answer
    /\ pc' = "done"
    /\ UNCHANGED <<idx, current_price, bullish_signals, bearish_signals, total_signals,
                   signal_weights, prediction, patterns, lib_log, request, args, result>>

ServePredict == Serve("/predict", predict_binary_options_direction(request.model))

ServeLegacyPredict ==
    Serve("/predict-binary-options", predict_binary_options_endpoint(request.model))

ServeAnalyze == Serve("/analyze", analyze_indicators(request.model))

ServeLegacyAnalyze ==
    Serve("legacy /analyze", analyze_technical_indicators(request.model))

NextRoutes ==
    \/ ServePredict
    \/ ServeLegacyPredict
    \/ ServeAnalyze
    \/ ServeLegacyAnalyze

SpecRoutes == InitRoutes /\ [][NextRoutes]_vars

(***************************************************************************)
(* get_pattern_signals on its own: on the detection map that               *)
(* calculate_candlestick_patterns builds from the library's answers for a  *)
(* short list of patterns, and on maps in the old format, in which an      *)
(* entry is one of the strings of the legacy detector (main.py 172-253).   *)
(***************************************************************************)
SeriesLen == 12

SeriesOf(ups, downs) ==
    [i \in 1..SeriesLen |-> IF i \in ups THEN 100 ELSE IF i \in downs THEN 0 - 100 ELSE 0]

SignalSeries ==
    {SeriesOf({1, 2, SeriesLen - 3, SeriesLen}, {}),
     SeriesOf({}, {3, SeriesLen - 2, SeriesLen - 1}),
     SeriesOf({4, SeriesLen - 1}, {5, SeriesLen})}

SignalNames == <<"hammer", "shooting_star", "engulfing", "doji", "inside">>

SignalLibs ==
    [Names(SignalNames) -> {PNone, PRaise("'open'")} \cup {PSeries(sr) : sr \in SignalSeries}]

OldFormatNames == <<"hammer", "shooting_star", "engulfing", "harami", "doji">>

OldFormatTexts == {<<"Bullish">>, <<"Bearish">>, <<"Neutral">>, NotDetected}

OldFormatMaps ==
    {[i \in 1..Len(OldFormatNames) |-> Item(OldFormatNames[i], StrEntry(f[i]))] :
        f \in [1..Len(OldFormatNames) -> OldFormatTexts]}

StudyUnchanged ==
    UNCHANGED <<idx, current_price, bullish_signals, bearish_signals, total_signals,
                signal_weights, prediction, lib_log, request, response>>

(* patterns = calculate_candlestick_patterns(df, names) *)
DetectPatterns ==
    /\ pc = "start"
    /\ \E lib \in SignalLibs :
         patterns' = calculate_candlestick_patterns(SignalNames, lib)
    /\ pc' = "detected"
    /\ UNCHANGED <<args, result>>
    /\ StudyUnchanged

(* a detection map in the old string format *)
GivenPatterns ==
    /\ pc = "start"
    /\ patterns' \in OldFormatMaps
    /\ pc' = "detected"
    /\ UNCHANGED <<args, result>>
    /\ StudyUnchanged

(* pattern_signals = get_pattern_signals(patterns) *)
AggregatePatterns ==
    /\ pc = "detected"
    /\ args' = patterns
    /\ result' = get_pattern_signals(patterns)
    /\ pc' = "done"
    /\ UNCHANGED patterns
    /\ StudyUnchanged

NextSignals ==
    \/ DetectPatterns
    \/ GivenPatterns
    \/ AggregatePatterns

SpecSignals == Init /\ [][NextSignals]_vars

(***************************************************************************)
(* _assess_risk and _generate_entry_suggestions on their own, on           *)
(* confidences, statistics and prices around the thresholds of their       *)
(* rules.                                                                  *)
(***************************************************************************)
Confidences ==
    {Ratio(0, 1), Ratio(1, 2), Ratio(6, 10), Ratio(61, 100), Ratio(7, 10), Ratio(71, 100),
     Ratio(8, 10), Ratio(81, 100), Ratio(95, 100), Ratio(1, 1)}

(* returns.std(): 0.02 is 2000 *)
Volatilities == {1000, 1999, 2000, 4999, 5000, 6000, 8000, 8001, NaN}

(* std / mean of the last ten volumes *)
VolumeCVs == {Num(1) \div 2, Num(1) - 1, Num(1), Num(2), Num(2) + 1, NaN}

ReadsRaise == [raises |-> TRUE, volatility |-> NaN, volume_cv |-> NaN, avg_atr |-> NaN]

RiskMarkets ==
    {ReadsRaise} \cup
    {[raises |-> FALSE, volatility |-> v, volume_cv |-> cv, avg_atr |-> NaN] :
        v \in Volatilities, cv \in VolumeCVs}

RiskArgs == {[confidence |-> c, market |-> m] : c \in Confidences, m \in RiskMarkets}

(* the mean 14-candle range in units of 0.00001; NaN below 14 candles *)
Ranges == {NaN, 0, 1, 4, 10, 11, 13, 20, 3000, 3001}

EntryMarkets ==
    {ReadsRaise} \cup
    {[raises |-> FALSE, volatility |-> NaN, volume_cv |-> NaN, avg_atr |-> a] : a \in Ranges}

EntryPrices == {Num(100), Num(100) + 3}

EntryArgs ==
    {[prediction |-> [prediction |-> d, confidence |-> c, risk_assessment |-> r],
      current_price |-> p, rng |-> m] :
        d \in {"call", "put", "neutral"}, c \in Confidences \ {Ratio(0, 1), Ratio(1, 1)},
        r \in {"low", "medium", "high"}, p \in EntryPrices, m \in EntryMarkets}

InitRisk ==
    /\ Idle
    /\ request = EmptyDict
    /\ response = EmptyDict
    /\ args \in RiskArgs
    /\ result = EmptyDict

InitEntry ==
    /\ Idle
    /\ request = EmptyDict
    /\ response = EmptyDict
    /\ args \in EntryArgs
    /\ result = EmptyDict

(* prediction['risk_assessment'] = _assess_risk(df, confidence) *)
AssessRisk ==
    /\ pc = "start"
    /\ result' = [risk_assessment |-> assess_risk(args.market, args.confidence)]
    /\ pc' = "done"
    /\ UNCHANGED <<args, patterns>>
    /\ StudyUnchanged

(* prediction['entry_suggestions'] = _generate_entry_suggestions(df, prediction) *)
GenerateEntrySuggestions ==
    /\ pc = "start"
    /\ result' = generate_entry_suggestions(args.rng, args.current_price, args.prediction)
    /\ pc' = "done"
    /\ UNCHANGED <<args, patterns>>
    /\ StudyUnchanged

SpecRisk == InitRisk /\ [][AssessRisk]_vars

SpecEntry == InitEntry /\ [][GenerateEntrySuggestions]_vars

(***************************************************************************)
(* Several calls of predict_binary_options, one after the other, each on   *)
(* one of a few frames.  A frame fixes everything a call reads: the last   *)
(* close, what the indicator and pattern libraries compute on it, and the  *)
(* statistics the helpers read.  args is the frame of the running call and *)
(* its number, result the first prediction returned for each frame.        *)
(***************************************************************************)
MaxCalls == 3

Frames == {"rising", "rising_volatile", "falling", "quiet", "blind", "unreadable"}

CalmMarket == CHOOSE m \in Markets : ~m.raises /\ m.volatility = 1000

VolatileMarket == CHOOSE m \in Markets : ~m.raises /\ m.volatility = 10000

NoMarket == CHOOSE m \in Markets : m.raises

RisingLibs(close) ==
    <<LibOk([rsi |-> Num(65)]),
      LibOk([macd |-> 2000, macd_signal |-> 1000]),
      LibOk([ema |-> close - 1000]),
      LibOk([upper |-> close + 1000, middle |-> close, lower |-> close - 1000]),
      LibOk([k |-> Num(40), d |-> Num(50)]),
      LibOk([atr |-> 1500]),
      LibOk([k |-> Num(90), d |-> Num(85)]),
      LibOk([vwap |-> close - 1000]),
      LibOk([value |-> close - 1000, direction |-> 1])>>

FallingLibs(close) ==
    <<LibOk([rsi |-> Num(25)]),
      LibOk([macd |-> 1000, macd_signal |-> 2000]),
      LibOk([ema |-> close - 1000]),
      LibNone,
      LibOk([k |-> Num(10), d |-> Num(15)]),
      LibRaise,
      LibOk([k |-> Num(50), d |-> Num(50)]),
      LibOk([vwap |-> close]),
      LibOk([value |-> close + 1000, direction |-> 0 - 1])>>

QuietLibs(close) ==
    <<LibRaise,
      LibNone,
      LibRaise,
      LibOk([upper |-> close + 1000, middle |-> close, lower |-> close - 1000]),
      LibRaise,
      LibOk([atr |-> 1500]),
      LibRaise,
      LibOk([vwap |-> close - 1000]),
      LibRaise>>

BlindLibs == [i \in 1..Len(indicators_config) |-> LibRaise]

Frame(readable, close, libs, pattern_lib, market) ==
    [readable |-> readable, close |-> close, libs |-> libs,
     pattern_lib |-> pattern_lib, market |-> market]

FrameOf(name) ==
    CASE name = "rising" ->
            Frame(TRUE, Num(100), RisingLibs(Num(100)),
                  [AllNone(default_patterns) EXCEPT !["hammer"] = PSeries(Up)], CalmMarket)
      [] name = "rising_volatile" ->
            Frame(TRUE, Num(100), RisingLibs(Num(100)),
                  [AllNone(default_patterns) EXCEPT !["hammer"] = PSeries(Up)], VolatileMarket)
      [] name = "falling" ->
            Frame(TRUE, Num(100), FallingLibs(Num(100)),
                  [AllNone(default_patterns) EXCEPT !["shootingstar"] = PSeries(Down),
                                                    !["engulfing"] = PSeries(Down),
                                                    !["marubozu"] = PSeries(Down)],
                  VolatileMarket)
      [] name = "quiet" ->
            Frame(TRUE, Num(100), QuietLibs(Num(100)), AllNone(default_patterns), CalmMarket)
      [] name = "blind" ->
            Frame(TRUE, Num(100), BlindLibs,
                  [AllNone(default_patterns) EXCEPT !["doji"] = PRaise("'open'")], NoMarket)
      [] OTHER ->
            Frame(FALSE, 0, BlindLibs, AllNone(default_patterns), NoMarket)

df == FrameOf(args.frame)

InitCalls ==
    /\ Idle
    /\ args \in {[frame |-> f, n |-> 1] : f \in Frames}
    /\ result = EmptyDict
    /\ request = EmptyDict
    /\ response = EmptyDict

ReadFrameClose ==
    /\ df.readable
    /\ ReadCloseFrom({df.close})

FrameUnreadable ==
    /\ ~df.readable
    /\ PipelineFails

AnalyzeFrameIndicator ==
    /\ pc = "indicators"
    /\ idx <= Len(indicators_config)
    /\ LoopBody(df.libs[idx])

AnalyzeFramePatterns == AnalyzePatternsFrom({df.pattern_lib})

ConcludeFrame == ConcludeFrom({df.market})

FreshSums_kept == UNCHANGED <<bullish_signals, bearish_signals, total_signals>>

(* lines 49-51: the three sums are locals, created at 0 by every call *)
FreshSums ==
    /\ bullish_signals' = 0
    /\ bearish_signals' = 0
    /\ total_signals' = 0

(* the call returns (line 133) and predict_binary_options is called again: *)
(* every name of the function body is bound anew (lines 23-52)             *)
CallAgain ==
    /\ pc = "done"
    /\ args.n < MaxCalls
    /\ result' = IF args.frame \in DOMAIN result THEN result
                 ELSE (args.frame :> prediction) @@ result
    /\ \E f \in Frames : args' = [frame |-> f, n |-> args.n + 1]
    /\ pc' = "start"
    /\ idx' = 1
    /\ current_price' = 0
    /\ FreshSums
    /\ signal_weights' = EmptyDict
    /\ prediction' = InitialPrediction
    /\ patterns' = << >>
    /\ lib_log' = << >>
    /\ UNCHANGED <<request, response>>

NextCalls ==
    \/ ReadFrameClose
    \/ FrameUnreadable
    \/ AnalyzeFrameIndicator
    \/ AnalyzeFramePatterns
    \/ ConcludeFrame
    \/ CallAgain

SpecCalls == InitCalls /\ [][NextCalls]_vars

(***************************************************************************)
(* predict_binary_options of main.py (the legacy engine).  Weights and the *)
(* confidence threshold are in hundredths; signals is the list the rules   *)
(* of lines 271-406 have appended.                                         *)
(***************************************************************************)
Signal(indicator, direction, weight) ==
    [indicator |-> indicator, direction |-> direction, weight |-> weight]

RECURSIVE SumWeight(_, _)
SumWeight(signals, direction) ==
    IF signals = << >> THEN 0
    ELSE (IF Head(signals).direction = direction THEN Head(signals).weight ELSE 0)
         + SumWeight(Tail(signals), direction)

(* lines 436-441 *)
risk_level(confidence) ==
    IF RatioLt(confidence, 60, 100) THEN "HIGH"
    ELSE IF RatioLt(confidence, 75, 100) THEN "MEDIUM"
    ELSE "LOW"

MaxRatio(a, b) == IF a.num * b.den >= b.num * a.den THEN a ELSE b

(* lines 426 and 429: confidence >= confidence_threshold *)
reaches(confidence, confidence_threshold) ==
    confidence.num * 100 >= confidence_threshold * confidence.den

(* lines 410-470 *)
legacy_predict_binary_options(signals, confidence_threshold) ==
    LET bullish_signals_ == SelectSeq(signals, LAMBDA sg : sg.direction = "bullish")
        bearish_signals_ == SelectSeq(signals, LAMBDA sg : sg.direction = "bearish")
        bullish_weight == SumWeight(bullish_signals_, "bullish")
        bearish_weight == SumWeight(bearish_signals_, "bearish")
        total_weight == bullish_weight + bearish_weight
        bullish_confidence == IF total_weight > 0 THEN Ratio(bullish_weight, total_weight)
                              ELSE Ratio(1, 2)
        bearish_confidence == IF total_weight > 0 THEN Ratio(bearish_weight, total_weight)
                              ELSE Ratio(1, 2)
        direction == IF reaches(bullish_confidence, confidence_threshold) THEN "BULLISH"
                     ELSE IF reaches(bearish_confidence, confidence_threshold) THEN "BEARISH"
                     ELSE "NEUTRAL"
        confidence == IF direction = "BULLISH" THEN bullish_confidence
                      ELSE IF direction = "BEARISH" THEN bearish_confidence
                      ELSE MaxRatio(bullish_confidence, bearish_confidence)
    IN  [direction |-> direction,
         confidence |-> confidence,
         risk_level |-> risk_level(confidence),
         bullish_signals |-> Len(bullish_signals_),
         bearish_signals |-> Len(bearish_signals_),
         bullish_weight |-> bullish_weight,
         bearish_weight |-> bearish_weight,
         detailed_signals |-> signals,
         recommended_action |-> IF direction = "BULLISH" THEN "BUY"
                                ELSE IF direction = "BEARISH" THEN "SELL" ELSE "WAIT"]

(* lines 472-476 *)
legacy_prediction_failed ==
    [error |-> TRUE, direction |-> "NEUTRAL", confidence |-> Ratio(1, 2),
     risk_level |-> "HIGH"]

(* what each rule can append: nothing, or one of its signals *)
LegacyRules ==
    <<{<< >>, <<Signal("rsi", "bullish", 80)>>, <<Signal("rsi", "bearish", 80)>>,
       <<Signal("rsi", "bullish", 40)>>, <<Signal("rsi", "bearish", 40)>>},
      {<< >>, <<Signal("macd", "bullish", 70)>>, <<Signal("macd", "bearish", 70)>>},
      {<< >>, <<Signal("ma", "bullish", 60)>>, <<Signal("ma", "bearish", 60)>>},
      {<< >>, <<Signal("bb", "bullish", 75)>>},
      {<< >>, <<Signal("stoch", "bullish", 50)>>, <<Signal("stoch", "bearish", 70)>>},
      {<< >>, <<Signal("price_action", "bearish", 60)>>},
      {<< >>, <<Signal("volume", "bullish", 30)>>, <<Signal("volume", "bearish", 30)>>},
      {<< >>, <<Signal("pattern", "bullish", 50)>>}>>

(* the lists the rules from the i-th on can leave, in the order of the code *)
RECURSIVE SignalListsFrom(_)
SignalListsFrom(i) ==
    IF i > Len(LegacyRules) THEN {<< >>}
    ELSE {h \o t : h \in LegacyRules[i], t \in SignalListsFrom(i + 1)}

LegacySignalLists == SignalListsFrom(1)

(* the thresholds the endpoint lets through: 0.5 <= threshold <= 1.0 *)
LegacyThresholds == {50, 60, 75, 100}

LegacyArgs ==
    {[signals |-> sl, confidence_threshold |-> t] :
        sl \in LegacySignalLists, t \in LegacyThresholds}

InitLegacy ==
    /\ Idle
    /\ request = EmptyDict
    /\ response = EmptyDict
    /\ args \in LegacyArgs
    /\ result = EmptyDict

(* prediction_result = predict_binary_options(df, timeframe, threshold) *)
LegacyPredict ==
    /\ pc = "start"
    /\ result' = legacy_predict_binary_options(args.signals, args.confidence_threshold)
    /\ pc' = "done"
    /\ UNCHANGED <<args, patterns>>
    /\ StudyUnchanged

(* a library call of lines 271-406 raises *)
LegacyPredictFails ==
    /\ pc = "start"
    /\ result' = legacy_prediction_failed
    /\ pc' = "done"
    /\ UNCHANGED <<args, patterns>>
    /\ StudyUnchanged

NextLegacy ==
    \/ LegacyPredict
    \/ LegacyPredictFails

SpecLegacy == InitLegacy /\ [][NextLegacy]_vars

(***************************************************************************)
(* Properties                                                              *)
(***************************************************************************)
returned == pc = "done"

InUnit(r) == r.den > 0 /\ r.num >= 0 /\ r.num <= r.den

(* C1: in every returned record the confidence lies in [0, 0.95] when the  *)
(* prediction is call or put, and in [0, 1] when it is neutral.            *)
C1_ConfidenceRange ==
    returned =>
        /\ InUnit(prediction.confidence)
        /\ prediction.prediction \in {"call", "put"}
               => ~RatioGt(prediction.confidence, 95, 100)

(* a call whose bullish ratio exceeds the cap was returned *)
C1_Witness ==
    /\ returned
    /\ prediction.prediction = "call"
    /\ RatioGt(Ratio(bullish_signals, total_signals), 95, 100)
    /\ RatioEq(prediction.confidence, 95, 100)

IsZero(r) == r.den > 0 /\ r.num = 0

(* C2: with a positive total weight the prediction is call with confidence *)
(* min(bullish_ratio, 0.95) exactly when bullish_ratio > 0.6, otherwise    *)
(* put with confidence min(bearish_ratio, 0.95) exactly when bearish_ratio *)
(* > 0.6, otherwise neutral with confidence 1 - |bullish - bearish ratio|. *)
C2_DecisionRule ==
    (returned /\ ~prediction.has_error /\ total_signals > 0) =>
        LET b == bullish_signals
            r == bearish_signals
            t == total_signals
            c == prediction.confidence
            capped(x) == IF 100 * x > 95 * t THEN RatioEq(c, 95, 100) ELSE RatioEq(c, x, t)
        IN  /\ c.den > 0
            /\ prediction.prediction = "call" <=> 10 * b > 6 * t
            /\ prediction.prediction = "put" <=> (10 * b <= 6 * t /\ 10 * r > 6 * t)
            /\ prediction.prediction = "neutral" <=> (10 * b <= 6 * t /\ 10 * r <= 6 * t)
            /\ prediction.prediction = "call" => capped(b)
            /\ prediction.prediction = "put" => capped(r)
            /\ prediction.prediction = "neutral" => RatioEq(c, t - Abs(b - r), t)

(* a put was returned on a bearish ratio between 0.6 and 0.95, while the   *)
(* bullish ratio was positive                                              *)
C2_Witness ==
    /\ returned
    /\ total_signals > 0
    /\ bullish_signals > 0
    /\ 10 * bearish_signals > 6 * total_signals
    /\ 100 * bearish_signals < 95 * total_signals
    /\ prediction.prediction = "put"
    /\ RatioEq(prediction.confidence, bearish_signals, total_signals)

(* the i-th call of the loop, recomputed from the library's answer *)
CallAt(i) ==
    calculate_indicator(indicators_config[i].name, indicators_config[i].params,
                        lib_log[i], current_price)

SigAt(i) ==
    analyze_indicator_signal(indicators_config[i].name, CallAt(i).result, current_price)

(* the keys _analyze_indicator_signal looks up for an indicator *)
LookupKeys(name) ==
    CASE name = "rsi" -> {"rsi"}
      [] name = "macd" -> {"macd", "macd_signal"}
      [] name = "ema" -> {"ema"}
      [] name = "bb" -> {"bb_upper", "bb_middle", "bb_lower"}
      [] name = "stoch" -> {"stoch_k", "stoch_d"}
      [] name = "stoch_rsi" -> {"stoch_rsi_k", "stoch_rsi_d"}
      [] name = "vwap" -> {"vwap", "price_vs_vwap"}
      [] name = "supertrend" -> {"supertrend_direction", "price_vs_supertrend"}
      [] OTHER -> {}

NoUsableReading(i) ==
    \/ CallAt(i).raised
    \/ /\ LookupKeys(indicators_config[i].name) # {}
       /\ LookupKeys(indicators_config[i].name) \cap DOMAIN CallAt(i).result = {}

(* C3: an indicator whose computation failed or whose result lacks the     *)
(* fields the interpreter looks up contributes neutral with weight 0.      *)
C3_NoReadingNoWeight ==
    \A i \in 1..Len(lib_log) :
        NoUsableReading(i) =>
            LET name == indicators_config[i].name
            IN  \/ name \notin DOMAIN signal_weights
                \/ signal_weights[name] = Sig("neutral", 0)

HasRsi == "rsi" \in DOMAIN signal_weights /\ prediction.indicator_scores["rsi"].rsi # NaN

RsiBands(v, else_weight) ==
    /\ v < Num(30) => signal_weights["rsi"] = Sig("bullish", W(15))
    /\ v > Num(70) => signal_weights["rsi"] = Sig("bearish", W(15))
    /\ (Num(30) <= v /\ v < Num(40)) => signal_weights["rsi"] = Sig("bullish", W(8))
    /\ (Num(60) < v /\ v <= Num(70)) => signal_weights["rsi"] = Sig("bearish", W(8))
    /\ (Num(40) <= v /\ v <= Num(60)) =>
           /\ signal_weights["rsi"] = Sig("neutral", else_weight)
           /\ total_signals = else_weight

(* C4 as stated: the RSI rule table, with (neutral, weight 0) for          *)
(* 40 <= v <= 60, which then adds nothing to the total weight.             *)
C4_RsiTableAsStated ==
    HasRsi => RsiBands(prediction.indicator_scores["rsi"].rsi, 0)

(* C4 amended: the same table, with (neutral, weight 1.0) for              *)
(* 40 <= v <= 60, which adds 1.0 to the total weight and to neither        *)
(* direction.                                                              *)
C4_RsiTable ==
    HasRsi =>
        /\ RsiBands(prediction.indicator_scores["rsi"].rsi, W(10))
        /\ signal_weights["rsi"].signal = "neutral"
               => (bullish_signals = 0 /\ bearish_signals = 0)

(* a library value of 29.996 was read as 30.0 and interpreted (bullish, 0.8) *)
C4_Witness ==
    /\ HasRsi
    /\ lib_log[Len(lib_log)].v.rsi = Num(30) - 400
    /\ prediction.indicator_scores["rsi"].rsi = Num(30)
    /\ signal_weights["rsi"] = Sig("bullish", W(8))

(* C5: the EMA-20 reading is interpreted against the close: close above    *)
(* it gives (bullish, 1.0), close below it gives (bearish, 1.0).           *)
C5_EmaDirection ==
    "ema" \in DOMAIN signal_weights =>
        LET ema20 == prediction.indicator_scores["ema"]["ema_20"]
        IN  /\ current_price > ema20 => signal_weights["ema"] = Sig("bullish", W(10))
            /\ current_price < ema20 => signal_weights["ema"] = Sig("bearish", W(10))

AllIndicatorsFailed ==
    /\ Len(lib_log) = Len(indicators_config)
    /\ \A i \in 1..Len(lib_log) : CallAt(i).raised

(* C6: when every indicator computation fails and the pattern aggregate is *)
(* neutral, the total weight is 0, the prediction is neutral with          *)
(* confidence 0 and both reported ratios are 0 (no division by zero).      *)
C6_AllFailedNeutralZero ==
    (returned /\ AllIndicatorsFailed
              /\ prediction.pattern_analysis.overall_signal = "neutral") =>
        /\ total_signals = 0
        /\ prediction.signals.total_signals = 0
        /\ prediction.prediction = "neutral"
        /\ IsZero(prediction.confidence)
        /\ IsZero(prediction.signals.bullish_ratio)
        /\ IsZero(prediction.signals.bearish_ratio)

C6_Witness ==
    /\ returned
    /\ AllIndicatorsFailed
    /\ prediction.pattern_analysis.overall_signal = "neutral"
    /\ prediction.signals.signal_breakdown = EmptyDict

(* C7: the call always ends with a record whose prediction is call, put or *)
(* neutral and whose risk is low, medium or high; a failure of the         *)
(* pipeline gives neutral, confidence 0 and an error message.              *)
C7_AlwaysWellFormed ==
    /\ returned =>
        /\ prediction.prediction \in {"call", "put", "neutral"}
        /\ prediction.risk_assessment \in {"low", "medium", "high"}
        /\ prediction.has_error =>
               (prediction.prediction = "neutral" /\ IsZero(prediction.confidence))
    /\ ~returned => ENABLED Next

(* the series could not be read and the error record was returned *)
C7_Witness ==
    /\ returned
    /\ prediction.has_error
    /\ prediction.prediction = "neutral"
    /\ lib_log = << >>

Evaluated == {i \in 1..Len(lib_log) : ~CallAt(i).raised}

RECURSIVE SumWeights(_, _)
SumWeights(I, directions) ==
    IF I = {} THEN 0
    ELSE LET i == CHOOSE j \in I : TRUE
         IN  (IF SigAt(i).signal \in directions THEN SigAt(i).weight ELSE 0)
             + SumWeights(I \ {i}, directions)

PatternShare(direction) ==
    IF prediction.pattern_analysis.overall_signal # direction THEN 0
    ELSE IF prediction.pattern_analysis.signal_strength = "strong" THEN W(20)
    ELSE W(10)

(* C8: an indicator that raises is skipped: the returned prediction is the *)
(* one of the other indicators and the pattern aggregate, the failed       *)
(* indicator has no entry in the breakdown, and every later indicator of   *)
(* the plan is still evaluated.                                            *)
C8_RaiseIsSkipped ==
    (returned /\ ~prediction.has_error) =>
        LET names == {indicators_config[i].name : i \in Evaluated}
            B == SumWeights(Evaluated, {"bullish"}) + PatternShare("bullish")
            R == SumWeights(Evaluated, {"bearish"}) + PatternShare("bearish")
            T == SumWeights(Evaluated, {"bullish", "bearish", "neutral"})
                 + PatternShare("bullish") + PatternShare("bearish")
        IN  /\ Len(lib_log) = Len(indicators_config)
            /\ DOMAIN prediction.signals.signal_breakdown = names
            /\ DOMAIN prediction.indicator_scores = names
            /\ \A i \in Evaluated :
                   prediction.signals.signal_breakdown[indicators_config[i].name] = SigAt(i)
            /\ prediction.signals.bullish_signals = B
            /\ prediction.signals.bearish_signals = R
            /\ prediction.signals.total_signals = T
            /\ prediction.prediction = decide(B, R, T).prediction
            /\ prediction.confidence = decide(B, R, T).confidence

(* bb raised in the middle of the plan and stoch, after it, was evaluated *)
C8_Witness ==
    /\ returned
    /\ ~prediction.has_error
    /\ CallAt(4).raised
    /\ ~CallAt(3).raised
    /\ "bb" \notin DOMAIN prediction.signals.signal_breakdown
    /\ "stoch" \in DOMAIN prediction.signals.signal_breakdown
    /\ "supertrend" \in DOMAIN prediction.signals.signal_breakdown

InSeq(x, seq) == \E i \in 1..Len(seq) : seq[i] = x

Aggregated == "overall_signal" \in DOMAIN prediction.pattern_analysis

(* C9: a detected pattern whose status says Bearish is counted as bearish  *)
(* and one whose status says Bullish as bullish, whatever the static       *)
(* table says about its name.                                              *)
C9_DetectedDirectionWins ==
    Aggregated =>
        \A k \in 1..Len(patterns) :
            LET it == patterns[k]
            IN  it.data.type = "dict" =>
                  /\ Contains(it.data.status, "Bearish") =>
                        /\ InSeq(it.name, prediction.pattern_analysis.bearish_patterns)
                        /\ ~InSeq(it.name, prediction.pattern_analysis.bullish_patterns)
                  /\ Contains(it.data.status, "Bullish") =>
                        /\ InSeq(it.name, prediction.pattern_analysis.bullish_patterns)
                        /\ ~InSeq(it.name, prediction.pattern_analysis.bearish_patterns)

FailedEntry(data) ==
    /\ data.type = "str"
    /\ \/ StartsWith(data.text, <<"Error">>)
       \/ StartsWith(data.text, NotSupported)
       \/ Contains(data.text, "error")

(* C10: no entry of the detection map that carries an error or a "not      *)
(* supported" status, the general-error entry included, is listed in       *)
(* detected_patterns or counted.                                           *)
C10_FailedPatternNotDetected ==
    Aggregated =>
        \A k \in 1..Len(patterns) :
            FailedEntry(patterns[k].data) =>
                /\ ~InSeq(patterns[k].name, prediction.pattern_analysis.detected_patterns)
                /\ ~InSeq(patterns[k].name, prediction.pattern_analysis.bullish_patterns)
                /\ ~InSeq(patterns[k].name, prediction.pattern_analysis.bearish_patterns)
                /\ ~InSeq(patterns[k].name, prediction.pattern_analysis.neutral_patterns)

(***************************************************************************)
(* The routes                                                              *)
(***************************************************************************)
served(endpoint) == pc = "done" /\ HasAttr(request, "endpoint") /\ request.endpoint = endpoint

(* C11: POST /predict with at least 30 well-formed candles in the fields   *)
(* of BinaryOptionsRequest is answered with status 'success' and the       *)
(* prediction record, not with an error response.                          *)
C11_PredictAccepts ==
    (/\ served("/predict")
     /\ request.model.ohlc_data.len >= 30
     /\ request.model.ohlc_data.timed)
    => /\ response.status_code = 200
       /\ HasAttr(response.body, "status")
       /\ response.body.status = "success"
       /\ HasAttr(response.body, "prediction")

(* C12: a predict request with fewer than 20 candles is answered with HTTP *)
(* 400 and carries no prediction, on /predict and on the legacy            *)
(* /predict-binary-options alike.                                          *)
C12_ShortSeriesRejected ==
    (/\ served("/predict") \/ served("/predict-binary-options")
     /\ request.model.ohlc_data.len < 20)
    => /\ response.status_code = 400
       /\ ~HasAttr(response.body, "prediction")

C12_Witness ==
    /\ served("/predict-binary-options")
    /\ request.model.ohlc_data = Candles(19, TRUE)
    /\ request.model.confidence_threshold = 60
    /\ response.status_code = 400
    /\ response.body = EmptyDict

BadIndicator(it) ==
    \/ it.name \notin {"rsi", "ema"}
    \/ Len(it.params) # 1

ReturnedData ==
    IF request.endpoint = "/analyze"
    THEN IF HasAttr(response.body, "data") THEN response.body.data ELSE EmptyDict
    ELSE response.body

(* C13: in analyze, an unsupported indicator name or a wrong parameter     *)
(* count yields an error entry for that indicator only; the other          *)
(* indicators of the batch are computed and returned and the request       *)
(* succeeds.                                                               *)
C13_PerIndicatorError ==
    (/\ served("/analyze") \/ served("legacy /analyze")
     /\ request.model.ohlc_data.len >= 2
     /\ \E i \in 1..Len(request.model.indicators) :
            BadIndicator(request.model.indicators[i]))
    => /\ response.status_code = 200
       /\ \A i \in 1..Len(request.model.indicators) :
            HasAttr(ReturnedData, request.model.indicators[i].name)

(***************************************************************************)
(* The pattern aggregate in the weighted pool                              *)
(***************************************************************************)
FoldedWeight(pattern_signals) ==
    IF pattern_signals.overall_signal = "neutral" THEN 0
    ELSE IF pattern_signals.signal_strength = "strong" THEN 20
    ELSE 10

(* C14: the step that folds the pattern aggregate adds 2.0 (strong) or 1.0 *)
(* (moderate, weak) to the bucket of overall_signal and to the total, and  *)
(* changes no bucket and not the total when overall_signal is neutral.     *)
C14_PatternFold ==
    [][(pc = "indicators" /\ pc' = "conclude") =>
         LET pattern_signals == prediction'.pattern_analysis
             w == FoldedWeight(pattern_signals)
         IN  /\ pattern_signals.signal_strength \in {"strong", "moderate", "weak"}
             /\ bullish_signals' - bullish_signals =
                    IF pattern_signals.overall_signal = "bullish" THEN w ELSE 0
             /\ bearish_signals' - bearish_signals =
                    IF pattern_signals.overall_signal = "bearish" THEN w ELSE 0
             /\ total_signals' - total_signals = w]_vars

C14_Witness ==
    /\ pc = "conclude"
    /\ prediction.pattern_analysis.overall_signal = "bearish"
    /\ prediction.pattern_analysis.signal_strength = "strong"
    /\ signal_weights = EmptyDict
    /\ bearish_signals = 20
    /\ bullish_signals = 0
    /\ total_signals = 20

(***************************************************************************)
(* The pattern aggregate                                                   *)
(***************************************************************************)
aggregated == pc = "done" /\ HasAttr(result, "overall_signal")

StrengthOf(n) == IF n >= 3 THEN "strong" ELSE IF n = 2 THEN "moderate" ELSE "weak"

(* C15: signal_strength is 'strong' for at least 3 detected patterns,      *)
(* 'moderate' for exactly 2, 'weak' otherwise, every entry of              *)
(* detected_patterns counting whether or not it was classified.            *)
C15_StrengthFromDetected ==
    aggregated => result.signal_strength = StrengthOf(Len(result.detected_patterns))

(* C16: overall_signal is 'bullish' when strictly more detected patterns   *)
(* were classified bullish than bearish, 'bearish' when strictly more were *)
(* classified bearish, 'neutral' when the counts are equal (zero or not).  *)
C16_OverallByMajority ==
    aggregated =>
        LET b == Len(result.bullish_patterns)
            r == Len(result.bearish_patterns)
        IN  /\ \A i \in 1..b : InSeq(result.bullish_patterns[i], result.detected_patterns)
            /\ \A i \in 1..r : InSeq(result.bearish_patterns[i], result.detected_patterns)
            /\ b > r => result.overall_signal = "bullish"
            /\ r > b => result.overall_signal = "bearish"
            /\ b = r => result.overall_signal = "neutral"

C16_Witness ==
    /\ aggregated
    /\ Len(result.bullish_patterns) = 2
    /\ Len(result.bearish_patterns) = 2
    /\ result.overall_signal = "neutral"

(* strptime: the minute of the day a timestamp string stands for *)
Minutes(timestamp) ==
    (timestamp[1] * 10 + timestamp[2]) * 60 + timestamp[3] * 10 + timestamp[4]

(* the occurrences of the detected patterns of the detection map *)
OccurrencesIn(items, detected_patterns) ==
    UNION {{[pattern |-> items[i].name, timestamp |-> items[i].data.occurrences[j].timestamp] :
               j \in 1..Len(items[i].data.occurrences)} :
           i \in {k \in 1..Len(items) : /\ items[k].data.type = "dict"
                                        /\ InSeq(items[k].name, detected_patterns)}}

Kept(recent_patterns) ==
    {[pattern |-> recent_patterns[i].pattern, timestamp |-> recent_patterns[i].timestamp] :
        i \in 1..Len(recent_patterns)}

assessed == pc = "done" /\ HasAttr(result, "risk_assessment") /\ ~args.market.raises

Below(x, bound) == x # NaN /\ x < bound

Above(x, bound) == x # NaN /\ x > bound

(* C18: for every confidence, volatility and volume_cv the risk tier is    *)
(* 'low' if confidence > 0.8, volatility < 0.02 and volume_cv < 1.0; else  *)
(* 'medium' if confidence > 0.6 and volatility < 0.05; else 'high' if      *)
(* volatility > 0.08 or volume_cv > 2.0; else 'medium'.  A volatility      *)
(* above 0.08 gives 'high' whatever the confidence and volume_cv.          *)
C18_RiskRules ==
    assessed =>
        LET c == args.confidence
            v == args.market.volatility
            cv == args.market.volume_cv
        IN  /\ result.risk_assessment =
                 IF c.num * 10 > 8 * c.den /\ Below(v, 2000) /\ Below(cv, 100000) THEN "low"
                 ELSE IF c.num * 10 > 6 * c.den /\ Below(v, 5000) THEN "medium"
                 ELSE IF Above(v, 8000) \/ Above(cv, 200000) THEN "high"
                 ELSE "medium"
            /\ Above(v, 8000) => result.risk_assessment = "high"

C18_Witness ==
    /\ assessed
    /\ args.confidence = Ratio(95, 100)
    /\ args.market.volatility = 8001
    /\ args.market.volume_cv = Num(1) \div 2
    /\ result.risk_assessment = "high"

suggested == pc = "done" /\ HasAttr(args, "rng") /\ ~args.rng.raises

(* C19: when the reads of the series succeed, a neutral prediction gets    *)
(* entry_timing 'avoid' with a reason and no stop-loss or take-profit; a   *)
(* call or put gets 'immediate' if confidence > 0.8,                       *)
(* 'wait_for_confirmation' if 0.6 < confidence <= 0.8, 'avoid' otherwise,  *)
(* position_size 'small' exactly when the risk is 'high' (else 'normal')   *)
(* and timeframes ['5m','15m'] exactly when confidence > 0.7 (else         *)
(* ['1m','5m']).                                                           *)
C19_EntryRules ==
    suggested =>
        LET p == args.prediction
            c == p.confidence
        IN  IF p.prediction = "neutral"
            THEN /\ result.entry_timing = "avoid"
                 /\ HasAttr(result, "reason")
                 /\ ~HasAttr(result, "stop_loss")
                 /\ ~HasAttr(result, "take_profit")
            ELSE /\ result.entry_timing =
                        IF c.num * 10 > 8 * c.den THEN "immediate"
                        ELSE IF c.num * 10 > 6 * c.den THEN "wait_for_confirmation"
                        ELSE "avoid"
                 /\ result.position_size =
                        IF p.risk_assessment = "high" THEN "small" ELSE "normal"
                 /\ result.recommended_timeframes =
                        IF c.num * 10 > 7 * c.den THEN <<"5m", "15m">> ELSE <<"1m", "5m">>

C19_Witness ==
    /\ suggested
    /\ args.prediction.prediction = "put"
    /\ args.prediction.confidence = Ratio(8, 10)
    /\ args.prediction.risk_assessment = "high"
    /\ result.entry_timing = "wait_for_confirmation"
    /\ result.position_size = "small"
    /\ result.recommended_timeframes = <<"5m", "15m">>

levelled ==
    /\ suggested
    /\ args.prediction.prediction \in {"call", "put"}
    /\ args.rng.avg_atr # NaN

(* +1 for a call, -1 for a put *)
Side == IF args.prediction.prediction = "call" THEN 1 ELSE 0 - 1

(* C20 as stated: stop_loss = price - 0.5*avg_range and take_profit =      *)
(* price + avg_range for a call, signs flipped for a put; with avg_range   *)
(* > 0 the price lies strictly between the two and the take-profit         *)
(* distance is twice the stop-loss distance.                               *)
C20_LevelsAsStated ==
    levelled =>
        LET price == args.current_price
            avg_range == args.rng.avg_atr
        IN  /\ 2 * result.stop_loss = 2 * price - Side * avg_range
            /\ result.take_profit = price + Side * avg_range
            /\ avg_range > 0 =>
                 /\ Side * result.stop_loss < Side * price
                 /\ Side * price < Side * result.take_profit
                 /\ Abs(result.take_profit - price) = 2 * Abs(price - result.stop_loss)

(* C20: both levels are the stated values rounded to 4 decimals (each a    *)
(* multiple of 0.0001 within 0.00005 of the stated value); with avg_range  *)
(* > 0.0001 the price lies strictly between the two; the take-profit       *)
(* distance is within 0.00015 of twice the stop-loss distance.             *)
C20_EntryLevels ==
    levelled =>
        LET price == args.current_price
            avg_range == args.rng.avg_atr
        IN  /\ result.stop_loss % 10 = 0
            /\ result.take_profit % 10 = 0
            /\ Abs(2 * result.stop_loss - (2 * price - Side * avg_range)) <= 10
            /\ Abs(result.take_profit - (price + Side * avg_range)) <= 5
            /\ avg_range > 10 =>
                 /\ Side * result.stop_loss < Side * price
                 /\ Side * price < Side * result.take_profit
            /\ Abs(Side * (result.take_profit - price)
                   - 2 * Side * (price - result.stop_loss)) <= 15

C20_Witness ==
    /\ levelled
    /\ args.prediction.prediction = "call"
    /\ args.current_price = Num(100) + 3
    /\ args.rng.avg_atr = 13
    /\ result.stop_loss = Num(100)
    /\ result.take_profit = Num(100) + 20
    /\ result.take_profit - args.current_price # 2 * (args.current_price - result.stop_loss)

(***************************************************************************)
(* The ratios of a prediction                                              *)
(***************************************************************************)
RECURSIVE BreakdownWeight(_, _, _)
BreakdownWeight(breakdown, names, direction) ==
    IF names = {} THEN 0
    ELSE LET n == CHOOSE m \in names : TRUE
         IN  (IF breakdown[n].signal = direction THEN breakdown[n].weight ELSE 0)
             + BreakdownWeight(breakdown, names \ {n}, direction)

NeutralWeight ==
    BreakdownWeight(prediction.signals.signal_breakdown,
                    DOMAIN prediction.signals.signal_breakdown, "neutral")

concluded == returned /\ ~prediction.has_error

(* C21: bullish_ratio + bearish_ratio <= 1 in every prediction; the sum is *)
(* strictly below 1 whenever a neutral signal carries positive weight and  *)
(* is 1 only when no neutral signal carries weight.                        *)
C21_RatiosSumToAtMostOne ==
    concluded =>
        LET b == prediction.signals.bullish_ratio
            r == prediction.signals.bearish_ratio
            sum_num == b.num * r.den + r.num * b.den
            sum_den == b.den * r.den
        IN  /\ sum_den > 0
            /\ sum_num <= sum_den
            /\ bullish_signals + bearish_signals <= total_signals
            /\ NeutralWeight > 0 =>
                 /\ sum_num < sum_den
                 /\ bullish_signals + bearish_signals < total_signals
            /\ sum_num = sum_den => NeutralWeight = 0

C21_Witness ==
    /\ concluded
    /\ NeutralWeight > 0
    /\ bullish_signals > 0
    /\ bearish_signals > 0
    /\ bullish_signals + bearish_signals + NeutralWeight = total_signals
    /\ prediction.signals.bullish_ratio.den = total_signals

(* the readings of the rising-series scenario: RSI 65, MACD line above its *)
(* signal line, price above EMA-20 and above VWAP                          *)
RisingReadings ==
    LET scores == prediction.indicator_scores
    IN  /\ {"rsi", "macd", "ema", "vwap"} \subseteq DOMAIN scores
        /\ Get(scores["rsi"], "rsi", NaN) = Num(65)
        /\ {"macd", "macd_signal"} \subseteq DOMAIN scores["macd"]
        /\ Gt(scores["macd"]["macd"], scores["macd"]["macd_signal"])
        /\ Gt(current_price, Get(scores["ema"], "ema_20", NaN))
        /\ Gt(current_price, Get(scores["vwap"], "vwap", NaN))

(* C22: with RSI 65, the MACD line above its signal line and the price     *)
(* above EMA-20 and above VWAP, the prediction is 'call' with confidence   *)
(* above 0.6.                                                              *)
C22_RisingSeriesIsCall ==
    (concluded /\ RisingReadings) =>
        /\ prediction.prediction = "call"
        /\ RatioGt(prediction.confidence, 6, 10)

(* C23: the VWAP signal is bearish 1.1 only when the price is strictly     *)
(* below VWAP and bullish 1.1 only when it is strictly above; a price      *)
(* equal to VWAP yields neither.                                           *)
C23_VwapStrict ==
    "vwap" \in DOMAIN signal_weights =>
        LET vwap == prediction.indicator_scores["vwap"].vwap
            s == signal_weights["vwap"]
        IN  /\ s.signal = "bearish" => (s.weight = W(11) /\ Lt(current_price, vwap))
            /\ s.signal = "bullish" => (s.weight = W(11) /\ Gt(current_price, vwap))
            /\ current_price = vwap => s.signal \notin {"bullish", "bearish"}

C25_ReportedRatiosAreDecisionRatios ==
    (concluded /\ total_signals > 0) =>
        /\ RatioEq(prediction.signals.bullish_ratio, bullish_signals, total_signals)
        /\ RatioEq(prediction.signals.bearish_ratio, bearish_signals, total_signals)

(* lines 99-107 with the two directional branches tested in the other order *)
decide_put_first(bullish, bearish, total) ==
    IF total > 0
    THEN LET bullish_ratio == Ratio(bullish, total)
             bearish_ratio == Ratio(bearish, total)
         IN  IF bearish_ratio.num * 10 > 6 * bearish_ratio.den
                 THEN Decision("put", Cap95(bearish_ratio))
             ELSE IF bullish_ratio.num * 10 > 6 * bullish_ratio.den
                 THEN Decision("call", Cap95(bullish_ratio))
             ELSE Decision("neutral", Ratio(total - Abs(bullish - bearish), total))
    ELSE Decision("neutral", Ratio(0, 1))

(* C26: bullish_ratio > 0.6 and bearish_ratio > 0.6 never hold together,   *)
(* so the result is the same when 'put' is tested before 'call', and a     *)
(* 'put' is returned only when bullish_ratio < 0.4.                        *)
C26_CallPutExclusive ==
    concluded =>
        /\ ~(bullish_signals * 10 > 6 * total_signals /\ bearish_signals * 10 > 6 * total_signals)
        /\ prediction.prediction =
               decide_put_first(bullish_signals, bearish_signals, total_signals).prediction
        /\ prediction.confidence =
               decide_put_first(bullish_signals, bearish_signals, total_signals).confidence
        /\ prediction.prediction = "put" =>
               /\ bearish_signals * 10 > 6 * total_signals
               /\ bullish_signals * 10 < 4 * total_signals

C26_Witness ==
    /\ concluded
    /\ prediction.prediction = "put"
    /\ bullish_signals > 0
    /\ bullish_signals * 10 < 4 * total_signals
    /\ bullish_signals * 10 >= 3 * total_signals

timed == concluded /\ "entry_timing" \in DOMAIN prediction.entry_suggestions

(* C27: a 'call' or 'put' result has confidence above 0.6 and entry_timing *)
(* 'immediate' or 'wait_for_confirmation'; 'avoid' occurs only for         *)
(* neutral predictions.                                                    *)
C27_DirectionalNeverAvoid ==
    concluded =>
        /\ prediction.prediction \in {"call", "put"} =>
               prediction.confidence.num * 10 > 6 * prediction.confidence.den
        /\ (timed /\ prediction.prediction \in {"call", "put"}) =>
               prediction.entry_suggestions.entry_timing
                   \in {"immediate", "wait_for_confirmation"}
        /\ (timed /\ prediction.entry_suggestions.entry_timing = "avoid") =>
               prediction.prediction = "neutral"

C27_Witness ==
    /\ timed
    /\ prediction.prediction = "call"
    /\ prediction.confidence.num * 10 <= 7 * prediction.confidence.den
    /\ prediction.entry_suggestions.entry_timing = "wait_for_confirmation"

(* C28: a 'neutral' prediction from a positive total weight has confidence *)
(* at least 0.4, and exactly 1.0 when the bullish and bearish weights are  *)
(* equal; a 'neutral' prediction has confidence 0 only when the total      *)
(* weight is 0 or the pipeline failed.                                     *)
C28_NeutralConfidence ==
    (returned /\ prediction.prediction = "neutral") =>
        /\ (~prediction.has_error /\ total_signals > 0) =>
               /\ prediction.confidence.num * 10 >= 4 * prediction.confidence.den
               /\ bullish_signals = bearish_signals =>
                      prediction.confidence.num = prediction.confidence.den
        /\ prediction.confidence.num = 0 =>
               (total_signals = 0 \/ prediction.has_error)

C28_Witness ==
    /\ concluded
    /\ prediction.prediction = "neutral"
    /\ total_signals > 0
    /\ bullish_signals # bearish_signals
    /\ prediction.confidence.num * 10 < 6 * prediction.confidence.den

Members(seq) == {seq[i] : i \in 1..Len(seq)}

(* the entries of a detection map that are not detected patterns *)
Undetected(data) ==
    LET text == IF data.type = "dict" THEN data.status ELSE data.text
    IN  \/ text = <<"Not", "Detected">>
        \/ (Len(text) >= 1 /\ text[1] = "Error")
        \/ (Len(text) >= 3 /\ SubSeq(text, 1, 3) = <<"Pattern", "Not", "Supported">>)

(* C29: bullish_patterns, bearish_patterns and neutral_patterns are        *)
(* pairwise disjoint subsets of detected_patterns: a detected pattern is   *)
(* in at most one of the three lists, once, and no pattern that is not     *)
(* detected is in any of them.                                             *)
C29_ListsDisjoint ==
    aggregated =>
        LET B == Members(result.bullish_patterns)
            R == Members(result.bearish_patterns)
            N == Members(result.neutral_patterns)
            D == Members(result.detected_patterns)
        IN  /\ B \cap R = {}
            /\ B \cap N = {}
            /\ R \cap N = {}
            /\ B \cup R \cup N \subseteq D
            /\ Len(result.bullish_patterns) + Len(result.bearish_patterns)
                 + Len(result.neutral_patterns) = Cardinality(B \cup R \cup N)
            /\ \A i \in 1..Len(args) :
                 Undetected(args[i].data) => args[i].name \notin B \cup R \cup N

C29_Witness ==
    /\ aggregated
    /\ result.bullish_patterns # << >>
    /\ result.bearish_patterns # << >>
    /\ \E i \in 1..Len(args) :
         /\ args[i].name \in neutral_table
         /\ ~Undetected(args[i].data)
         /\ args[i].name \in Members(result.bullish_patterns)
    /\ \E i \in 1..Len(args) : Undetected(args[i].data)

legacy_predicted ==
    pc = "done" /\ HasAttr(result, "recommended_action")

HasSignal(direction) ==
    \E i \in 1..Len(args.signals) : args.signals[i].direction = direction

(* C30: legacy predict returns NEUTRAL with confidence 0.5 when no signal  *)
(* was produced, for every accepted confidence_threshold, and returns      *)
(* BULLISH (BEARISH) only when a bullish (bearish) signal exists.          *)
C30_LegacyNoSignalNeutral ==
    legacy_predicted =>
        /\ args.signals = << >> =>
               /\ result.direction = "NEUTRAL"
               /\ result.confidence = Ratio(1, 2)
        /\ result.direction = "BULLISH" => HasSignal("bullish")
        /\ result.direction = "BEARISH" => HasSignal("bearish")

====
